---- MODULE Spec2Model ----
(***************************************************************************)
(* Memory Manager (PageIndex): the per-chat memory store, the extraction,  *)
(* compression, embedding and retrieval flows of src/index.js, and the     *)
(* version migration chain.                                                *)
(*                                                                         *)
(* Every async function of the source is split at the awaits of external   *)
(* calls (text generation, embeddings, file upload): the code between two  *)
(* such awaits runs without interruption on the single JavaScript thread   *)
(* and is one action.  A `data` reference held across an await is the key  *)
(* of the chat whose store object it points to.  The on/off settings can   *)
(* be changed by the user between any two steps, so every step that reads  *)
(* one draws its value; the numeric settings are fixed in a behaviour.     *)
(***************************************************************************)
EXTENDS Integers, Sequences, FiniteSets, TLC

\* ------------------------------------------------------------------------
\*  Bounds of the model
\* ------------------------------------------------------------------------
MaxPageIds == 2        \* page ids generateId hands out in one behaviour
MaxChatLen == 1        \* messages per chat
MaxNewPages == 2       \* newPages entries in one generated result
MaxLines == 1          \* timeline lines a generator returns
MaxCeiling == 2        \* largest compress / archive ceiling a cycle is run with
MaxCyclePages == 3     \* pages of a store a compression cycle is run on
CHUNK_SIZE == 2        \* messages per batch of the initialization (20 in the source)
MaxToolCalls == 2      \* tool calls one reasoning round returns
MaxTopK == 1           \* largest embeddingTopK
MaxMaxPages == 2       \* largest maxPages
MaxTokens == 1         \* tokens of the recent messages
MaxOldEntries == 1     \* characters / pages of a store of an earlier version
MaxCast == 1           \* names per character list of a generated result
MaxCastChat == 2       \* messages of a chat whose extractions carry character lists
MaxLongChat == 3       \* messages of a chat that is initialized in batches, or grows during a call
MaxContent == 3        \* characters of a string the generator writes

\* ------------------------------------------------------------------------
\*  Program constants
\* ------------------------------------------------------------------------
DATA_VERSION == 4
COMPRESS_FRESH == 0
COMPRESS_SUMMARY == 1
COMPRESS_ARCHIVED == 2
FAILURE_THRESHOLD == 3
MAX_CHARACTERS == 2

VALID_CATEGORIES ==
    {"emotional", "relationship", "intimate", "promise",
     "conflict", "discovery", "turning_point", "daily"}

\* Keywords, names and query tokens are words over a two-letter alphabet
W1 == <<1>>
W2 == <<2>>
W12 == <<1, 2>>
Words == {W1, W2, W12}

Chats == {"chatA", "chatB"}
NoChat == "none"
Extractors == {"ex1"}
Compressors == Extractors \cup {"manual"}
Procs == Compressors \cup {"batch", "retr"}

\* ------------------------------------------------------------------------
\*  Helpers on sequences
\* ------------------------------------------------------------------------
Min(a, b) == IF a <= b THEN a ELSE b

Range(s) == {s[i] : i \in DOMAIN s}

RECURSIVE SeqsUpTo(_, _)
SeqsUpTo(S, n) ==
    IF n = 0 THEN {<<>>}
    ELSE LET shorter == SeqsUpTo(S, n - 1)
         IN  shorter \cup {Append(s, x) : s \in {t \in shorter : Len(t) = n - 1}, x \in S}

\* Array.prototype.slice(0, n)
Take(s, n) == SubSeq(s, 1, Min(n, Len(s)))

\* Array.prototype.sort with comparator a.createdAt - b.createdAt (stable
\* insertion into the already sorted prefix)
RECURSIVE InsertByCreatedAt(_, _)
InsertByCreatedAt(sorted, p) ==
    IF sorted = <<>> THEN <<p>>
    ELSE IF Head(sorted).createdAt <= p.createdAt
         THEN <<Head(sorted)>> \o InsertByCreatedAt(Tail(sorted), p)
         ELSE <<p>> \o sorted

RECURSIVE SortByCreatedAt(_)
SortByCreatedAt(s) ==
    IF s = <<>> THEN <<>>
    ELSE InsertByCreatedAt(SortByCreatedAt(SubSeq(s, 1, Len(s) - 1)), s[Len(s)])

\* ------------------------------------------------------------------------
\*  Data layer
\* ------------------------------------------------------------------------
createDefaultData ==
    [version |-> DATA_VERSION,
     timeline |-> 0,
     knownCharacterAttitudes |-> <<>>,
     characters |-> <<>>,
     items |-> <<>>,
     pages |-> <<>>,
     embeddings |-> {},
     lastExtractedMessageId |-> -1,
     extractionInProgress |-> FALSE,
     messageRecalls |-> [m \in 0..MaxChatLen |-> {}]]

PageIdsOf(d) == {d.pages[i].id : i \in DOMAIN d.pages}

\* data.pages.find(p => p.id === id): the index of the first match, 0 if none
findIndex(pages, id) ==
    IF \E i \in DOMAIN pages : pages[i].id = id
    THEN CHOOSE i \in DOMAIN pages :
            /\ pages[i].id = id
            /\ \A j \in DOMAIN pages : pages[j].id = id => i <= j
    ELSE 0

FreshCount(d) == Cardinality({i \in DOMAIN d.pages : d.pages[i].compressionLevel = COMPRESS_FRESH})
SummaryCount(d) == Cardinality({i \in DOMAIN d.pages : d.pages[i].compressionLevel = COMPRESS_SUMMARY})

VARIABLES
    cur,                  \* key of the chat the host has open (getContext())
    chat,                 \* chat[c]: number of messages of chat c
    store,                \* store[c]: chatMetadata.memoryManager of chat c
    proc,                 \* proc[p]: position and locals of each async flow
    nextId,               \* ids handed out so far + 1; also read as Date.now()
    consecutiveFailures,  \* module-level counter of safeExtract
    toast,                \* the safeExtract call that ended last showed the warning
    streak,               \* failed safeExtract calls in a row in the open chat
    hist,                 \* the archive log: one entry per page archivePage removed
    settings,             \* getSettings(): the numeric settings
    lastRecalled,         \* lastRecalledPages / lastRecalledChars of the last turn
    turn,                 \* what the tiers of the last retrieval turn did
    parse,                \* a generated text and what parseJsonResponse made of it
    slot                  \* the file of the character's active save slot

vars == <<cur, chat, store, proc, nextId, consecutiveFailures, toast, streak,
          hist, settings, lastRecalled, turn, parse, slot>>

\* No slot has been saved (getActiveSlotName returns null); in a process:
\* no save is being uploaded
NoSlot == [t |-> "none"]

\* No text has been generated
Unparsed == [t |-> "none"]

NoParse == [text |-> <<>>, result |-> Unparsed]

Idle ==
    [pc |-> "idle", data |-> NoChat, cdata |-> NoChat, edata |-> NoChat,
     page |-> 0, todo |-> <<>>, fresh |-> <<>>, plan |-> <<>>,
     lines |-> 0, n |-> 0,
     hasCand |-> FALSE, cand |-> {}, enum |-> {}, sel |-> <<>>, chars |-> <<>>,
     searched |-> FALSE, saving |-> NoSlot]

getMemoryData == store[cur]

NoHist == {}

\* The tiers of retrieval turns are not traced (behaviours that start here
\* keep no trace: the trace is an observer, no code reads it)
Untraced == [agent |-> "untraced", searched |-> FALSE, selected |-> FALSE, fallback |-> FALSE]

\* No retrieval turn has run its tiers
NoTurn == [agent |-> "none", searched |-> FALSE, selected |-> FALSE, fallback |-> FALSE]

\* DEFAULT_SETTINGS, scaled down so that the ceilings are crossed by a store
\* of MaxPageIds pages
SmallSettings ==
    [compressAfterPages |-> 1, archiveAfterPages |-> 0, maxTimelineEntries |-> 0,
     extractionInterval |-> 1, maxPages |-> 1, embeddingTopK |-> 1,
     knownCharacters |-> {}, autoSaveSlot |-> FALSE]

Init ==
    /\ cur = "chatA"
    /\ chat = [c \in Chats |-> 0]
    /\ store = [c \in Chats |-> createDefaultData]
    /\ proc = [p \in Procs |-> Idle]
    /\ nextId = 1
    /\ consecutiveFailures = 0
    /\ toast = FALSE
    /\ streak = 0
    /\ hist = NoHist
    /\ settings = SmallSettings
    /\ lastRecalled = [pages |-> <<>>, characters |-> <<>>]
    /\ turn = Untraced
    /\ parse = NoParse
    /\ slot = NoSlot

\* ------------------------------------------------------------------------
\*  Extraction merge
\* ------------------------------------------------------------------------
\* An id generator that hands out an id it has handed out before
generateId_reuses(now, r) == 1

\* generateId('pg'): 'pg_' + Date.now() + '_' + four characters of
\* Math.random(), as a number.  `now` is the clock and r the random part;
\* the clock moves on by the number of pages of a call, so that ids of
\* different calls differ in their clock part.
generateId(now, r) == now + r

\* One entry of result.newPages passes the checks of applyExtractionResult
ValidNewPage(raw) ==
    /\ raw.title # ""
    /\ raw.content = "long"
    /\ raw.keywords # <<>>

NewPage(raw, id, now, charNames) ==
    [id |-> id,
     createdAt |-> now,
     compressionLevel |-> COMPRESS_FRESH,
     content |-> "orig",
     compressedAt |-> 0,
     keywords |-> raw.keywords,
     characters |-> SelectSeq(raw.keywords, LAMBDA k : k \in charNames),
     categories |-> SelectSeq(raw.categories, LAMBDA c : c \in VALID_CATEGORIES),
     significance |-> IF raw.significance = "" THEN "medium" ELSE raw.significance,
     sourceMessages |-> {}]

\* for (const page of result.newPages): `random` holds the random parts
\* generateId draws, one per page pushed
RECURSIVE AddNewPages(_, _, _, _, _, _)
AddNewPages(pages, raws, n, now, charNames, random) ==
    IF raws = <<>> THEN pages
    ELSE IF ValidNewPage(Head(raws))
         THEN AddNewPages(Append(pages, NewPage(Head(raws), generateId(n, Head(random)),
                                                now, charNames)),
                          Tail(raws), n, now, charNames, Tail(random))
         ELSE AddNewPages(pages, Tail(raws), n, now, charNames, random)

\* Random parts that differ from page to page
DistinctRandom == [i \in 1..(MaxNewPages + 1) |-> i - 1]

NumValid(raws) == Len(SelectSeq(raws, ValidNewPage))

\* getKnownCharacterNames(): the name of the character card (W1) and the
\* names of the knownCharacters setting
KnownNames == {W1} \cup settings.knownCharacters

\* ctx.name1, the protagonist
userName == W12

NamesOf(list) == {list[i].name : i \in DOMAIN list}

\* A missing name, and a name that is not a string (a number, an object):
\* name.trim() throws a TypeError on it
NoName == <<>>

NotAString == <<0>>

\* The entries of a list a loop gets through before name.trim() throws
RECURSIVE Before(_)
Before(list) ==
    IF list = <<>> \/ Head(list).name = NotAString THEN <<>>
    ELSE <<Head(list)>> \o Before(Tail(list))

Wellformed(list) == Before(list) = list

\* "Update known character attitudes": an incoming name of the known list is
\* pushed unless it is there already
RECURSIVE mergeKnown(_, _)
mergeKnown(known, incoming) ==
    IF incoming = <<>> THEN known
    ELSE LET c == Head(incoming)
         IN  IF c.name \in KnownNames /\ c.name \notin NamesOf(known)
             THEN mergeKnown(Append(known, c), Tail(incoming))
             ELSE mergeKnown(known, Tail(incoming))

\* "Update new NPC characters": a non-empty result.newCharacters replaces
\* data.characters, without the protagonist and the known names
replaceCharacters(characters, newCharacters) ==
    IF newCharacters = <<>> THEN characters
    ELSE SelectSeq(newCharacters,
                   LAMBDA c : /\ c.name # NoName
                              /\ c.name # userName
                              /\ c.name \notin KnownNames)

\* "Backward compatibility": result.characters without result.newCharacters;
\* a known name goes to knownCharacterAttitudes, any other to data.characters
RECURSIVE mergeLegacy(_, _)
mergeLegacy(d, legacy) ==
    IF legacy = <<>> THEN d
    ELSE LET c == Head(legacy)
         IN  IF c.name = NoName \/ c.name = userName THEN mergeLegacy(d, Tail(legacy))
             ELSE IF c.name \in KnownNames
             THEN mergeLegacy(
                    [d EXCEPT !.knownCharacterAttitudes =
                        IF c.name \in NamesOf(@) THEN @ ELSE Append(@, c)],
                    Tail(legacy))
             ELSE mergeLegacy(
                    [d EXCEPT !.characters =
                        IF c.name \in NamesOf(@) THEN @ ELSE Append(@, c)],
                    Tail(legacy))

\* applyExtractionResult, block by block: what it has written to the store
\* when it returns or when a name.trim() throws (the loops stop at the entry
\* that throws, the filter of newCharacters throws before the assignment)
mergeOutcome(d, result, n, now) ==
    LET d1 == [d EXCEPT
                !.timeline = IF result.timeline # 0 THEN result.timeline ELSE @,
                !.knownCharacterAttitudes =
                    mergeKnown(@, Before(result.knownCharacterAttitudes))]
        d2 == [d1 EXCEPT
                !.characters = IF result.splitFormat
                               THEN replaceCharacters(@, result.newCharacters)
                               ELSE @]
        d3 == IF result.splitFormat THEN d2
              ELSE mergeLegacy(d2, Before(result.characters))
    IN  IF ~Wellformed(result.knownCharacterAttitudes)
        THEN [data |-> d1, threw |-> TRUE]
        ELSE IF result.splitFormat /\ ~Wellformed(result.newCharacters)
        THEN [data |-> d1, threw |-> TRUE]
        ELSE IF ~result.splitFormat /\ ~Wellformed(result.characters)
        THEN [data |-> d3, threw |-> TRUE]
        ELSE [data |-> [d3 EXCEPT !.pages = AddNewPages(@, result.newPages, n, now,
                                                        NamesOf(d3.characters),
                                                        result.random)],
              threw |-> FALSE]

\* applyExtractionResult(data, result): the store when it has returned
applyExtractionResult(d, result, n, now) == mergeOutcome(d, result, n, now).data

\* What the generator returns to one extraction call
GoodRaw == [title |-> "t", content |-> "long", keywords |-> <<W1>>,
            categories |-> <<>>, significance |-> ""]
BadRaw == [GoodRaw EXCEPT !.keywords = <<>>]

\* Results that carry no character lists.  `random` is not a field of the
\* parsed result: it holds the random parts generateId draws while the
\* result is applied, here a different one for every page.
Results ==
    {[timeline |-> t, newPages |-> ps, knownCharacterAttitudes |-> <<>>,
      splitFormat |-> TRUE, newCharacters |-> <<>>, characters |-> <<>>,
      random |-> DistinctRandom] :
        t \in 0..MaxLines, ps \in SeqsUpTo({GoodRaw}, MaxNewPages)}

\* Results applied with any random parts, equal ones included
ResultsAnyRandom ==
    {[r EXCEPT !.random = rnd] :
        r \in Results,
        rnd \in [1..(MaxNewPages + 1) -> 0..MaxNewPages]}

\* Results that carry character lists of up to MaxCast names and no pages:
\* the split format (knownCharacterAttitudes / newCharacters) or the old
\* format (characters)
Cast == [name : {W1, W2, userName}]

CastResults ==
    {[timeline |-> 0, newPages |-> <<>>, knownCharacterAttitudes |-> k,
      splitFormat |-> TRUE, newCharacters |-> c, characters |-> <<>>,
      random |-> DistinctRandom] :
        k \in SeqsUpTo(Cast, MaxCast), c \in SeqsUpTo(Cast, MaxCast)}
    \cup
    {[timeline |-> 0, newPages |-> <<>>, knownCharacterAttitudes |-> k,
      splitFormat |-> FALSE, newCharacters |-> <<>>, characters |-> c,
      random |-> DistinctRandom] :
        k \in SeqsUpTo(Cast, MaxCast), c \in SeqsUpTo(Cast, MaxCast)}

\* ------------------------------------------------------------------------
\*  Compression engine
\* ------------------------------------------------------------------------
RemoveAt(s, i) == SubSeq(s, 1, i - 1) \o SubSeq(s, i + 1, Len(s))

\* archivePage without the clean-up of the recall log
archivePage_keepsRecalls(d, pageId) ==
    LET idx == findIndex(d.pages, pageId)
    IN  IF idx = 0 THEN d
        ELSE IF d.pages[idx].compressionLevel < COMPRESS_SUMMARY THEN d
        ELSE [d EXCEPT
                !.pages = RemoveAt(@, idx),
                !.embeddings = @ \ {pageId}]

\* if (page.compressionLevel < COMPRESS_SUMMARY) return; splice, delete the
\* embedding, filter every messageRecalls entry (an emptied entry is deleted)
archivePage(d, pageId) ==
    LET idx == findIndex(d.pages, pageId)
    IN  IF idx = 0 THEN d
        ELSE IF d.pages[idx].compressionLevel < COMPRESS_SUMMARY THEN d
        ELSE [d EXCEPT
                !.pages = RemoveAt(@, idx),
                !.embeddings = @ \ {pageId},
                !.messageRecalls = [m \in DOMAIN @ |-> @[m] \ {pageId}]]

RECURSIVE archiveAll(_, _)
archiveAll(d, ids) ==
    IF ids = <<>> THEN d ELSE archiveAll(archivePage(d, Head(ids)), Tail(ids))

IdsOf(pages) == [i \in DOMAIN pages |-> pages[i].id]

\* runCompressionCycle, step 2: const freshPages (oldest first)
freshPages(d) ==
    SortByCreatedAt(SelectSeq(d.pages, LAMBDA q : q.compressionLevel = COMPRESS_FRESH))

\* A cycle that leaves one FRESH page more than the ceiling
toCompress_keepsOneMore(d) ==
    IF Len(freshPages(d)) > settings.compressAfterPages + 1
    THEN IdsOf(Take(freshPages(d), Len(freshPages(d)) - settings.compressAfterPages - 1))
    ELSE <<>>

\* A cycle that takes the FRESH pages in store order, not oldest first
toCompress_unsorted(d) ==
    LET fresh == SelectSeq(d.pages, LAMBDA q : q.compressionLevel = COMPRESS_FRESH)
    IN  IF Len(fresh) > settings.compressAfterPages
        THEN IdsOf(Take(fresh, Len(fresh) - settings.compressAfterPages))
        ELSE <<>>

\* runCompressionCycle, step 2: const toCompress
toCompress(d) ==
    IF Len(freshPages(d)) > settings.compressAfterPages
    THEN IdsOf(Take(freshPages(d), Len(freshPages(d)) - settings.compressAfterPages))
    ELSE <<>>

\* runCompressionCycle, step 3: const toArchive
toArchive(d) ==
    LET summaryPages == SortByCreatedAt(
            SelectSeq(d.pages, LAMBDA q : q.compressionLevel = COMPRESS_SUMMARY))
    IN  IF Len(summaryPages) > settings.archiveAfterPages
        THEN IdsOf(Take(summaryPages, Len(summaryPages) - settings.archiveAfterPages))
        ELSE <<>>

\* autoSaveIfEnabled up to the upload of saveToSlot: with autoSaveSlot set
\* and an active slot, saveData = { ...getMemoryData() } is serialized
Serialized(st) ==
    IF settings.autoSaveSlot /\ slot # NoSlot THEN st[cur] ELSE NoSlot

\* The end of safeCompress: performExtraction goes on to autoSaveIfEnabled,
\* the manual trigger is finished.
EndCycle(st, p, pr) ==
    IF p \in Extractors
    THEN [store |-> st, log |-> {},
          pr |-> [pr EXCEPT !.pc = "save", !.saving = Serialized(st),
                            !.cdata = NoChat, !.edata = NoChat,
                            !.page = 0, !.todo = <<>>, !.fresh = <<>>,
                            !.plan = <<>>, !.lines = 0]]
    ELSE [store |-> st, log |-> {}, pr |-> Idle]

\* log('Archiving page:', ...): the page, what the store held about it, and
\* whether saveMemoryData() ran after it was archived and before the next
\* page was (the loop calls none: the call after the loop follows the last
\* page only)
ArchiveLog(c, d, ids) ==
    {[chat |-> c, id |-> ids[k],
      hadEmbedding |-> ids[k] \in d.embeddings,
      hadRecall |-> \E m \in DOMAIN d.messageRecalls : ids[k] \in d.messageRecalls[m],
      saved |-> k = Len(ids)] :
        k \in DOMAIN ids}

\* for (const page of toArchive) archivePage(data, page.id)
ArchivePhase(st, p, pr) ==
    LET d == st[pr.cdata]
        ids == toArchive(d)
    IN  [EndCycle([st EXCEPT ![pr.cdata] = archiveAll(d, ids)], p, pr)
            EXCEPT !.log = ArchiveLog(pr.cdata, d, ids)]

\* compressPage(data, id) goes as far as its callLLM when the page is found
\* and FRESH, and returns at once otherwise
Compressible(d, id) ==
    LET idx == findIndex(d.pages, id)
    IN  idx # 0 /\ d.pages[idx].compressionLevel = COMPRESS_FRESH

\* for (const page of toCompress): up to the next page whose call is awaited
NextCompress(st, p, pr) ==
    LET d == st[pr.cdata]
        hits == {k \in DOMAIN pr.todo : Compressible(d, pr.todo[k])}
    IN  IF hits = {}
        THEN ArchivePhase(st, p, pr)
        ELSE LET k == CHOOSE i \in hits : \A j \in hits : i <= j
             IN  [store |-> st, log |-> {},
                  pr |-> [pr EXCEPT !.pc = "compress", !.page = pr.todo[k],
                                    !.edata = NoChat,
                                    !.todo = SubSeq(pr.todo, k + 1, Len(pr.todo))]]

PagesPhase(st, p, pr) ==
    NextCompress(st, p, [pr EXCEPT !.todo = toCompress(st[pr.cdata]),
                                   !.fresh = IdsOf(freshPages(st[pr.cdata])),
                                   !.plan = toCompress(st[pr.cdata]), !.lines = 0])

\* safeCompress -> runCompressionCycle(getMemoryData(), force) up to its
\* first awaited external call
StartCycle(st, p, pr, c) ==
    LET pr1 == [pr EXCEPT !.cdata = c]
    IN  IF st[c].timeline <= settings.maxTimelineEntries
        THEN PagesPhase(st, p, pr1)
        ELSE [store |-> st, log |-> {},
              pr |-> [pr1 EXCEPT !.pc = "timeline", !.lines = st[c].timeline]]

\* ------------------------------------------------------------------------
\*  Extraction engine
\* ------------------------------------------------------------------------
SetProc(p, out) ==
    /\ store' = out.store
    /\ proc' = [proc EXCEPT ![p] = out.pr]
    /\ hist' = hist \cup out.log

\* performExtraction after its embedding loop: the compression cycle when
\* autoCompress is set, then autoSaveIfEnabled
AfterEmbed(st, p, pr, autoCompress, c) ==
    IF autoCompress
    THEN StartCycle(st, p, pr, c)
    ELSE [store |-> st, log |-> {},
          pr |-> [pr EXCEPT !.pc = "save", !.saving = Serialized(st),
                            !.page = 0, !.edata = NoChat]]

\* for (const page of newPages) await embedPage(page): embedPage returns at
\* once when the embedding API is not configured, else reads getMemoryData()
\* and awaits the embeddings call
NextEmbed(st, p, pr, emb, autoCompress, c) ==
    IF pr.todo = <<>> \/ ~emb
    THEN AfterEmbed(st, p, [pr EXCEPT !.todo = <<>>], autoCompress, c)
    ELSE [store |-> st, log |-> {},
          pr |-> [pr EXCEPT !.pc = "embedNew", !.page = Head(pr.todo),
                            !.todo = Tail(pr.todo), !.edata = c]]

\* Variant: finally leaves the flag as it is
ClearFlag_keepsFlag(st, c) == st

\* finally { data.processing.extractionInProgress = false }
ClearFlag(st, c) == [st EXCEPT ![c].extractionInProgress = FALSE]

\* Variant: the warning comes one failure early
Warns_early(n) == n + 2 >= FAILURE_THRESHOLD

\* catch: consecutiveFailures++; if (consecutiveFailures >= 3) toastr.warning
Warns(n) == n + 1 >= FAILURE_THRESHOLD

CountFailure(n) == IF Warns(n) THEN 0 ELSE n + 1

\* The catch block of safeExtract
Catch ==
    /\ consecutiveFailures' = CountFailure(consecutiveFailures)
    /\ toast' = Warns(consecutiveFailures)
    /\ streak' = IF Warns(consecutiveFailures) THEN 0
                 ELSE Min(streak + 1, FAILURE_THRESHOLD)

\* safeExtract(force) up to the callLLM of performExtraction
safeExtract(p, force) ==
    /\ p \in Extractors
    /\ proc[p].pc = "idle"
    /\ ~getMemoryData.extractionInProgress
    /\ chat[cur] > 0
    /\ force \/ chat[cur] - 1 - getMemoryData.lastExtractedMessageId >= settings.extractionInterval
    /\ store' = [store EXCEPT ![cur].extractionInProgress = TRUE]
    /\ IF getMemoryData.lastExtractedMessageId + 1 >= chat[cur]
       THEN \* performExtraction returns at once; hideProcessedMessages is awaited
            /\ proc' = [proc EXCEPT ![p] = [Idle EXCEPT !.pc = "hide", !.data = cur]]
            /\ consecutiveFailures' = 0
            /\ streak' = 0
            /\ UNCHANGED toast
       ELSE \* newMsgs = chat.slice(startIdx): the prompt holds the messages up to n - 1
            /\ proc' = [proc EXCEPT ![p] = [Idle EXCEPT !.pc = "llm", !.data = cur,
                                                        !.n = chat[cur]]]
            /\ UNCHANGED <<consecutiveFailures, toast, streak>>
    /\ UNCHANGED <<cur, chat, nextId, hist, settings, lastRecalled, turn, parse, slot>>

\* Variant: the failing cycle has already written the timeline
performExtractionFails_writesTimeline(p) ==
    /\ p \in Extractors
    /\ proc[p].pc = "llm"
    /\ Catch
    /\ store' = [ClearFlag(store, proc[p].data) EXCEPT ![proc[p].data].timeline = MaxLines]
    /\ proc' = [proc EXCEPT ![p] = Idle]
    /\ UNCHANGED <<cur, chat, nextId, hist, settings, lastRecalled, turn, parse, slot>>

\* callLLM of performExtraction throws, or parseJsonResponse returns null
performExtractionFails(p) ==
    /\ p \in Extractors
    /\ proc[p].pc = "llm"
    /\ Catch
    /\ store' = ClearFlag(store, proc[p].data)
    /\ proc' = [proc EXCEPT ![p] = Idle]
    /\ UNCHANGED <<cur, chat, nextId, hist, settings, lastRecalled, turn, parse, slot>>

\* callLLM of performExtraction returns a parseable result, one of R
performExtractionAppliesFrom(p, R) ==
    /\ p \in Extractors
    /\ proc[p].pc = "llm"
    /\ \E result \in R, emb \in BOOLEAN, autoCompress \in BOOLEAN :
        /\ nextId + NumValid(result.newPages) <= MaxPageIds + 1
        /\ LET c == proc[p].data
               d1 == applyExtractionResult(store[c], result, nextId, nextId)
               d2 == [d1 EXCEPT !.lastExtractedMessageId = chat[c] - 1]
               newPages == SelectSeq(d2.pages,
                              LAMBDA q : q.id \notin d2.embeddings
                                         /\ q.compressionLevel <= COMPRESS_SUMMARY)
               pr == [proc[p] EXCEPT !.todo = IF emb THEN IdsOf(newPages) ELSE <<>>,
                                     !.n = 0]
           IN  SetProc(p, NextEmbed([store EXCEPT ![c] = d2], p, pr, emb, autoCompress, cur))
        /\ nextId' = nextId + NumValid(result.newPages)
    /\ UNCHANGED <<cur, chat, consecutiveFailures, toast, streak, settings, lastRecalled, turn, parse, slot>>

performExtractionApplies(p) == performExtractionAppliesFrom(p, Results)

\* embedPage: the embeddings call returns (ok) or throws
embedPageReturns(p) ==
    /\ proc[p].pc \in {"embedNew", "reembed"}
    /\ \E ok \in BOOLEAN, emb \in BOOLEAN, autoCompress \in BOOLEAN :
        LET pr == proc[p]
            st == IF ok
                  THEN [store EXCEPT ![pr.edata].embeddings = @ \cup {pr.page}]
                  ELSE store
        IN  IF pr.pc = "embedNew"
            THEN SetProc(p, NextEmbed(st, p, pr, emb, autoCompress, cur))
            ELSE SetProc(p, NextCompress(st, p, pr))
    /\ UNCHANGED <<cur, chat, nextId, consecutiveFailures, toast, streak, settings, lastRecalled, turn, parse, slot>>

\* autoSaveIfEnabled returns (the upload of saveToSlot, if any, made the
\* serialized store the slot's file, or failed): consecutiveFailures = 0,
\* hideProcessedMessages
saveReturns(p) ==
    /\ p \in Extractors
    /\ proc[p].pc = "save"
    /\ proc' = [proc EXCEPT ![p].pc = "hide", ![p].saving = NoSlot]
    /\ \E ok \in BOOLEAN :
        slot' = IF ok /\ proc[p].saving # NoSlot THEN proc[p].saving ELSE slot
    /\ consecutiveFailures' = 0
    /\ streak' = 0
    /\ UNCHANGED toast
    /\ UNCHANGED <<cur, chat, store, nextId, hist, settings, lastRecalled, turn, parse>>

\* hideProcessedMessages returns or throws; finally
hideReturns(p) ==
    /\ p \in Extractors
    /\ proc[p].pc = "hide"
    /\ \E threw \in BOOLEAN :
        IF threw THEN Catch
        ELSE toast' = FALSE /\ UNCHANGED <<consecutiveFailures, streak>>
    /\ store' = ClearFlag(store, proc[p].data)
    /\ proc' = [proc EXCEPT ![p] = Idle]
    /\ UNCHANGED <<cur, chat, nextId, hist, settings, lastRecalled, turn, parse, slot>>

\* ------------------------------------------------------------------------
\*  Compression cycle
\* ------------------------------------------------------------------------
\* $('#mm_force_compress') / mm-compress: safeCompress(true)
safeCompress(p) ==
    /\ p = "manual"
    /\ proc[p].pc = "idle"
    /\ SetProc(p, StartCycle(store, p, proc[p], cur))
    /\ UNCHANGED <<cur, chat, nextId, consecutiveFailures, toast, streak, settings, lastRecalled, turn, parse, slot>>

\* Variant: the compacted text replaces the timeline whatever its line count
compressTimelineReturns_noGate(p) ==
    /\ proc[p].pc = "timeline"
    /\ \E lines \in 0..(MaxLines + 1) :
        LET pr == proc[p]
            st == IF lines # 0
                  THEN [store EXCEPT ![pr.cdata].timeline = lines]
                  ELSE store
        IN  SetProc(p, PagesPhase(st, p, pr))
    /\ UNCHANGED <<cur, chat, nextId, consecutiveFailures, toast, streak, settings, lastRecalled, turn, parse, slot>>

\* compressTimeline: the call returns `lines` non-empty lines (0: it threw or
\* returned too short a text)
compressTimelineReturns(p) ==
    /\ proc[p].pc = "timeline"
    /\ \E lines \in 0..(MaxLines + 1) :
        LET pr == proc[p]
            st == IF lines # 0 /\ lines <= pr.lines
                  THEN [store EXCEPT ![pr.cdata].timeline = lines]
                  ELSE store
        IN  SetProc(p, PagesPhase(st, p, pr))
    /\ UNCHANGED <<cur, chat, nextId, consecutiveFailures, toast, streak, settings, lastRecalled, turn, parse, slot>>

\* The page object compressPage holds, after a successful call
compressedPage(q, now) ==
    [q EXCEPT !.content = "sum", !.compressionLevel = COMPRESS_SUMMARY,
              !.compressedAt = now]

\* Variant: a failed call has already stamped compressedAt
compressPageReturns_stampsFailed(p) ==
    /\ proc[p].pc = "compress"
    /\ \E ok \in BOOLEAN, emb \in BOOLEAN :
        LET pr == proc[p]
            idx == findIndex(store[pr.cdata].pages, pr.page)
            st == IF idx = 0 THEN store
                  ELSE IF ok
                  THEN [store EXCEPT ![pr.cdata].pages[idx] = compressedPage(@, nextId)]
                  ELSE [store EXCEPT ![pr.cdata].pages[idx].compressedAt = nextId]
        IN  IF ok /\ emb
            THEN SetProc(p, [store |-> st, log |-> {},
                             pr |-> [pr EXCEPT !.pc = "reembed", !.edata = cur]])
            ELSE SetProc(p, NextCompress(st, p, pr))
    /\ UNCHANGED <<cur, chat, nextId, consecutiveFailures, toast, streak, settings, lastRecalled, turn, parse, slot>>

\* compressPage: the call returns a usable text (ok) or not
compressPageReturns(p) ==
    /\ proc[p].pc = "compress"
    /\ \E ok \in BOOLEAN, emb \in BOOLEAN :
        LET pr == proc[p]
            idx == findIndex(store[pr.cdata].pages, pr.page)
            st == IF ok /\ idx # 0
                  THEN [store EXCEPT ![pr.cdata].pages[idx] = compressedPage(@, nextId)]
                  ELSE store
        IN  IF ok /\ emb
            THEN SetProc(p, [store |-> st, log |-> {},
                             pr |-> [pr EXCEPT !.pc = "reembed", !.edata = cur]])
            ELSE SetProc(p, NextCompress(st, p, pr))
    /\ UNCHANGED <<cur, chat, nextId, consecutiveFailures, toast, streak, settings, lastRecalled, turn, parse, slot>>

\* ------------------------------------------------------------------------
\*  Batch initialization
\* ------------------------------------------------------------------------
LoreBatch == [type |-> "lore", sourceIds |-> {}, lastIdx |-> -1]

\* Variant: the chat batches are listed from the newest chunk to the oldest
RECURSIVE ChatBatches_newestFirst(_, _)
ChatBatches_newestFirst(i, n) ==
    IF i >= n THEN <<>>
    ELSE LET last == Min(i + CHUNK_SIZE, n) - 1
         IN  ChatBatches_newestFirst(i + CHUNK_SIZE, n)
             \o <<[type |-> "chat", sourceIds |-> i..last, lastIdx |-> last]>>

\* for (let i = 0; i < allMessages.length; i += CHUNK_SIZE) batches.push(...)
RECURSIVE ChatBatches(_, _)
ChatBatches(i, n) ==
    IF i >= n THEN <<>>
    ELSE LET last == Min(i + CHUNK_SIZE, n) - 1
         IN  <<[type |-> "chat", sourceIds |-> i..last, lastIdx |-> last]>>
             \o ChatBatches(i + CHUNK_SIZE, n)

BatchNext(st, pr, autoHide) ==
    IF pr.todo # <<>>
    THEN [store |-> st, log |-> {}, pr |-> [pr EXCEPT !.pc = "chunk"]]
    ELSE IF autoHide /\ st[pr.data].lastExtractedMessageId >= 0
         THEN [store |-> st, log |-> {}, pr |-> [pr EXCEPT !.pc = "hide"]]
         ELSE [store |-> ClearFlag(st, pr.data), log |-> {}, pr |-> Idle]

performBatchInitialization(p) ==
    /\ p = "batch"
    /\ proc[p].pc = "idle"
    /\ chat[cur] > 0
    /\ store' = [store EXCEPT ![cur] =
                    [createDefaultData EXCEPT !.extractionInProgress = TRUE]]
    /\ proc' = [proc EXCEPT ![p] = [Idle EXCEPT !.pc = "lore", !.data = cur,
                                                !.n = chat[cur]]]
    /\ UNCHANGED <<cur, chat, nextId, consecutiveFailures, toast, streak, hist, settings, lastRecalled, turn, parse, slot>>

\* gatherWorldBookContext returns (with or without world book text)
batchLoreReturns(p) ==
    /\ p = "batch"
    /\ proc[p].pc = "lore"
    /\ \E lore \in BOOLEAN, autoHide \in BOOLEAN :
        LET batches == (IF lore THEN <<LoreBatch>> ELSE <<>>) \o ChatBatches(0, proc[p].n)
        IN  SetProc(p, BatchNext(store, [proc[p] EXCEPT !.todo = batches], autoHide))
    /\ UNCHANGED <<cur, chat, nextId, consecutiveFailures, toast, streak, settings, lastRecalled, turn, parse, slot>>

\* Tag source messages for new pages (only for chat batches)
tagSourceMessages(d, batch) ==
    IF batch.type = "chat" /\ batch.sourceIds # {}
    THEN [d EXCEPT
            !.pages = [i \in DOMAIN @ |->
                        IF @[i].sourceMessages = {}
                        THEN [@[i] EXCEPT !.sourceMessages = batch.sourceIds]
                        ELSE @[i]],
            !.lastExtractedMessageId = batch.lastIdx]
    ELSE d

\* One batch's callLLM fails or its response does not parse: continue
batchChunkFails(p) ==
    /\ p = "batch"
    /\ proc[p].pc = "chunk"
    /\ \E autoHide \in BOOLEAN :
        SetProc(p, BatchNext(store, [proc[p] EXCEPT !.todo = Tail(@)], autoHide))
    /\ UNCHANGED <<cur, chat, nextId, consecutiveFailures, toast, streak, settings, lastRecalled, turn, parse, slot>>

batchChunkApplies(p) ==
    /\ p = "batch"
    /\ proc[p].pc = "chunk"
    /\ \E result \in Results, autoHide \in BOOLEAN :
        /\ nextId + NumValid(result.newPages) <= MaxPageIds + 1
        /\ LET c == proc[p].data
               d1 == applyExtractionResult(store[c], result, nextId, nextId)
               d2 == tagSourceMessages(d1, Head(proc[p].todo))
           IN  SetProc(p, BatchNext([store EXCEPT ![c] = d2],
                                    [proc[p] EXCEPT !.todo = Tail(@)], autoHide))
        /\ nextId' = nextId + NumValid(result.newPages)
    /\ UNCHANGED <<cur, chat, consecutiveFailures, toast, streak, settings, lastRecalled, turn, parse, slot>>

batchHideReturns(p) ==
    /\ p = "batch"
    /\ proc[p].pc = "hide"
    /\ store' = ClearFlag(store, proc[p].data)
    /\ proc' = [proc EXCEPT ![p] = Idle]
    /\ UNCHANGED <<cur, chat, nextId, consecutiveFailures, toast, streak, hist, settings, lastRecalled, turn, parse, slot>>

\* ------------------------------------------------------------------------
\*  Host events and page browser
\* ------------------------------------------------------------------------
\* The host appends a message to the open chat, of at most max messages
ChatGrows(max) ==
    /\ chat[cur] < max
    /\ chat' = [chat EXCEPT ![cur] = @ + 1]
    /\ UNCHANGED <<cur, store, proc, nextId, consecutiveFailures, toast, streak, hist, settings, lastRecalled, turn, parse, slot>>

NewMessage == ChatGrows(MaxChatLen)

\* CHAT_CHANGED: the host has opened chat c
onChatChanged(c) ==
    /\ c # cur
    /\ cur' = c
    /\ consecutiveFailures' = 0
    /\ streak' = 0
    /\ store' = ClearFlag(store, c)
    /\ UNCHANGED <<chat, proc, nextId, toast, hist, settings, lastRecalled, turn, parse, slot>>

onDeletePage(id) ==
    /\ findIndex(getMemoryData.pages, id) # 0
    /\ store' = [store EXCEPT
                    ![cur].pages = RemoveAt(@, findIndex(@, id)),
                    ![cur].embeddings = @ \ {id}]
    /\ UNCHANGED <<cur, chat, proc, nextId, consecutiveFailures, toast, streak, hist, settings, lastRecalled, turn, parse, slot>>

\* ------------------------------------------------------------------------
\*  Retrieval: embedding pre-filter, agent, keyword fallback
\* ------------------------------------------------------------------------
\* x.includes(y) on words
Includes(x, y) ==
    \E i \in 1..(Len(x) - Len(y) + 1) : SubSeq(x, i, i + Len(y) - 1) = y

CharNames(d) == {d.characters[i].name : i \in DOMAIN d.characters}

NoRecall == [pages |-> <<>>, characters |-> <<>>]

\* buildRetrievalTools: the enum of recall_story_page (no such tool: {})
pageEnum(d, hasCand, cand) ==
    {d.pages[i].id : i \in {j \in DOMAIN d.pages :
        /\ hasCand => d.pages[j].id \in cand
        /\ d.pages[j].compressionLevel <= COMPRESS_SUMMARY}}

SEARCH_TOOL_NAMES ==
    {"search_pages_by_category", "recall_pages_by_day",
     "get_relationship_history", "search_by_keyword"}

\* The tool calls a reasoning round can return: the model is not bound by the
\* enum of the tool schema (page_id 0: an id of no page)
ToolCalls(d) ==
    {[name |-> "recall_story_page", page_id |-> id, cname |-> <<>>] :
        id \in PageIdsOf(d) \cup {0}}
    \cup {[name |-> "recall_character", page_id |-> 0, cname |-> nm] : nm \in CharNames(d)}
    \cup {[name |-> "search_by_keyword", page_id |-> 0, cname |-> <<>>]}

\* The loops over the recall calls without the limits on the lists
RECURSIVE processRecalls_noLimit(_, _, _, _, _)
processRecalls_noLimit(d, calls, acc, maxPages, dedupe) ==
    IF calls = <<>> THEN acc
    ELSE LET tc == Head(calls)
             acc1 ==
                IF tc.name = "recall_story_page" /\ tc.page_id # 0
                THEN IF /\ findIndex(d.pages, tc.page_id) # 0
                        /\ ~(dedupe /\ tc.page_id \in Range(acc.pages))
                     THEN [acc EXCEPT !.pages = Append(@, tc.page_id)]
                     ELSE acc
                ELSE IF tc.name = "recall_character" /\ tc.cname # <<>>
                THEN IF /\ tc.cname \in CharNames(d)
                        /\ ~(dedupe /\ tc.cname \in Range(acc.characters))
                     THEN [acc EXCEPT !.characters = Append(@, tc.cname)]
                     ELSE acc
                ELSE acc
         IN  processRecalls_noLimit(d, Tail(calls), acc1, maxPages, dedupe)

\* agentRetrieve: the loop over the recall calls of round 1 (dedupe FALSE) and
\* of round 2 (dedupe TRUE); pages are looked up in data.pages
RECURSIVE processRecalls(_, _, _, _, _)
processRecalls(d, calls, acc, maxPages, dedupe) ==
    IF calls = <<>> THEN acc
    ELSE LET tc == Head(calls)
             acc1 ==
                IF tc.name = "recall_story_page" /\ tc.page_id # 0
                THEN IF /\ findIndex(d.pages, tc.page_id) # 0
                        /\ Len(acc.pages) < maxPages
                        /\ ~(dedupe /\ tc.page_id \in Range(acc.pages))
                     THEN [acc EXCEPT !.pages = Append(@, tc.page_id)]
                     ELSE acc
                ELSE IF tc.name = "recall_character" /\ tc.cname # <<>>
                THEN IF /\ tc.cname \in CharNames(d)
                        /\ Len(acc.characters) < MAX_CHARACTERS
                        /\ ~(dedupe /\ tc.cname \in Range(acc.characters))
                     THEN [acc EXCEPT !.characters = Append(@, tc.cname)]
                     ELSE acc
                ELSE acc
         IN  processRecalls(d, Tail(calls), acc1, maxPages, dedupe)

\* keywordFallbackRetrieve: twice the score of a page (the source adds 0.5)
RECURSIVE keywordScore2(_, _)
keywordScore2(keywords, queryKeywords) ==
    IF keywords = <<>> THEN 0
    ELSE LET kw == Head(keywords)
         IN  (IF kw \in queryKeywords THEN 4 ELSE 0)
             + 2 * Cardinality({q \in queryKeywords :
                                  q # kw /\ (Includes(q, kw) \/ Includes(kw, q))})
             + keywordScore2(Tail(keywords), queryKeywords)

score2(q, queryKeywords) ==
    keywordScore2(q.keywords, queryKeywords)
    + (IF q.significance = "high" THEN 2 ELSE 0)
    + (IF q.compressionLevel = COMPRESS_FRESH THEN 1 ELSE 0)

\* Variant: the scored pages stay in store order
SortByScore_unsorted(pages, queryKeywords) == pages

\* .sort((a, b) => b.score - a.score): stable, highest score first
RECURSIVE SortByScore(_, _)
SortByScore(pages, queryKeywords) ==
    IF pages = <<>> THEN <<>>
    ELSE LET rest == SortByScore(Tail(pages), queryKeywords)
             x == Head(pages)
             before == SelectSeq(rest, LAMBDA y :
                          score2(y, queryKeywords) > score2(x, queryKeywords))
             after == SelectSeq(rest, LAMBDA y :
                          score2(y, queryKeywords) <= score2(x, queryKeywords))
         IN  before \o <<x>> \o after

keywordFallbackRetrieve(d, queryKeywords, maxPages) ==
    LET scored == SortByScore(
            SelectSeq(d.pages, LAMBDA q : /\ q.compressionLevel <= COMPRESS_SUMMARY
                                          /\ score2(q, queryKeywords) > 0),
            queryKeywords)
        pages == Take(scored, maxPages)
        mentionedChars ==
            UNION {Range(pages[i].characters) : i \in DOMAIN pages}
            \cup {nm \in CharNames(d) : nm \in queryKeywords}
    IN  [pages |-> IdsOf(pages),
         characters |-> Take(SelectSeq([i \in DOMAIN d.characters |-> d.characters[i].name],
                                       LAMBDA nm : nm \in mentionedChars),
                             MAX_CHARACTERS)]

\* extractQueryKeywords: the set of tokens of the recent messages
Queries == {T \in SUBSET Words : Cardinality(T) <= MaxTokens}

SubsetsOfSize(S, n) == {T \in SUBSET S : Cardinality(T) = n}

\* A recall log that also moves the extraction cursor to the logged message
recordRecall_movesCursor(d, msgId, ids) ==
    [d EXCEPT !.messageRecalls[msgId] = Range(ids), !.lastExtractedMessageId = msgId]

\* data.messageRecalls[nextMessageId] = retrieved.pages.map(p => p.id)
recordRecall(d, msgId, ids) ==
    IF ids # <<>> THEN [d EXCEPT !.messageRecalls[msgId] = Range(ids)] ELSE d

\* retrieveMemories after the tiers: lastRecalledPages / lastRecalledChars,
\* and the recall log of the next message
EndTurn(p, pr, result, trace) ==
    /\ lastRecalled' = result
    /\ turn' = IF turn = Untraced THEN Untraced ELSE trace
    /\ store' = [store EXCEPT ![pr.data] = recordRecall(@, pr.n, result.pages)]
    /\ proc' = [proc EXCEPT ![p] = Idle]

\* What agentRetrieve did in a turn: `agent` is how it ended ("off": not
\* called, "empty": returned before its first call, "failed1": round 1 threw,
\* "round1": returned after round 1, "failed2": round 2 threw, "round2":
\* returned after round 2), `searched` whether round 1 held a search call,
\* `selected` whether it returned a page or a character, `fallback` whether
\* keywordFallbackRetrieve was called
Trace(agent, searched, retrieved, fallback) ==
    [agent |-> agent, searched |-> searched,
     selected |-> ~(retrieved.pages = <<>> /\ retrieved.characters = <<>>),
     fallback |-> fallback]

\* Variant: the keyword fallback runs whatever the agent returned
FinishTurn_alwaysFallback(p, pr, retrieved, agent, searched) ==
    \E queryKeywords \in Queries :
        EndTurn(p, pr, keywordFallbackRetrieve(store[pr.data], queryKeywords,
                                               settings.maxPages),
                Trace(agent, searched, retrieved, TRUE))

\* retrieveMemories, Step 3: the keyword fallback (over the tokens of the
\* recent messages) when nothing was retrieved
FinishTurn(p, pr, retrieved, agent, searched) ==
    IF retrieved.pages = <<>> /\ retrieved.characters = <<>>
    THEN \E queryKeywords \in Queries :
            EndTurn(p, pr, keywordFallbackRetrieve(store[pr.data], queryKeywords,
                                                   settings.maxPages),
                    Trace(agent, searched, retrieved, TRUE))
    ELSE EndTurn(p, pr, retrieved, Trace(agent, searched, retrieved, FALSE))

\* retrieveMemories, Step 2: agentRetrieve up to its first reasoning call
StartAgent(p, pr, useAgent) ==
    LET d == store[pr.data]
    IN  IF useAgent /\ ~(d.pages = <<>> /\ d.characters = <<>>)
        THEN /\ proc' = [proc EXCEPT ![p] =
                    [pr EXCEPT !.pc = "round1",
                               !.enum = pageEnum(d, pr.hasCand, pr.cand)]]
             /\ UNCHANGED <<store, lastRecalled, turn>>
        ELSE FinishTurn(p, pr, NoRecall, IF useAgent THEN "empty" ELSE "off", FALSE)

\* retrieveMemories up to its first awaited call
retrieveMemories(p) ==
    /\ p = "retr"
    /\ proc[p].pc = "idle"
    /\ IF getMemoryData.pages = <<>> /\ getMemoryData.characters = <<>>
       THEN /\ lastRecalled' = NoRecall
            /\ turn' = IF turn = Untraced THEN Untraced ELSE NoTurn
            /\ UNCHANGED <<store, proc>>
       ELSE \E useEmbedding \in BOOLEAN, useAgent \in BOOLEAN :
            LET pr == [Idle EXCEPT !.data = cur, !.n = chat[cur]]
            IN  IF useEmbedding
                THEN /\ proc' = [proc EXCEPT ![p] = [pr EXCEPT !.pc = "prefilter"]]
                     /\ UNCHANGED <<store, lastRecalled, turn>>
                ELSE StartAgent(p, pr, useAgent)
    /\ UNCHANGED <<cur, chat, nextId, consecutiveFailures, toast, streak, hist, settings, parse, slot>>

\* embeddingPreFilter returns the topK best-scoring embedded pages (any of
\* them: the vectors are not modelled), or null when the call threw
retrievePrefilterReturns(p) ==
    /\ p = "retr"
    /\ proc[p].pc = "prefilter"
    /\ \E ok \in BOOLEAN, useAgent \in BOOLEAN :
        LET d == store[proc[p].data]
            embedded == {d.pages[i].id : i \in {j \in DOMAIN d.pages :
                            /\ d.pages[j].compressionLevel <= COMPRESS_SUMMARY
                            /\ d.pages[j].id \in d.embeddings}}
        IN  IF ok
            THEN \E cand \in SubsetsOfSize(embedded,
                                Min(settings.embeddingTopK, Cardinality(embedded))) :
                    StartAgent(p, [proc[p] EXCEPT !.hasCand = TRUE, !.cand = cand],
                               useAgent)
            ELSE StartAgent(p, proc[p], useAgent)
    /\ UNCHANGED <<cur, chat, nextId, consecutiveFailures, toast, streak, hist, settings, parse, slot>>

\* Variant: a thrown round 1 ends the turn without the keyword fallback
retrieveRound1Fails_aborts(p) ==
    /\ p = "retr"
    /\ proc[p].pc = "round1"
    /\ EndTurn(p, proc[p], NoRecall, Trace("failed1", FALSE, NoRecall, FALSE))
    /\ UNCHANGED <<cur, chat, nextId, consecutiveFailures, toast, streak, hist, settings, parse, slot>>

\* The reasoning call of round 1 threw: agentRetrieve returns nothing
retrieveRound1Fails(p) ==
    /\ p = "retr"
    /\ proc[p].pc = "round1"
    /\ FinishTurn(p, proc[p], NoRecall, "failed1", FALSE)
    /\ UNCHANGED <<cur, chat, nextId, consecutiveFailures, toast, streak, hist, settings, parse, slot>>

\* Variant: round 2 is issued whenever pages may still be selected
round2Issued_wheneverRoom(searchCalls, selectedPages, maxPages) ==
    Len(selectedPages) < maxPages

\* if (searchCalls.length > 0 && selectedPages.length < maxPages)
round2Issued(searchCalls, selectedPages, maxPages) ==
    searchCalls # <<>> /\ Len(selectedPages) < maxPages

\* Round 1 returns its tool calls
retrieveRound1Returns(p) ==
    /\ p = "retr"
    /\ proc[p].pc = "round1"
    /\ \E calls \in SeqsUpTo(ToolCalls(store[proc[p].data]), MaxToolCalls) :
        LET d == store[proc[p].data]
            r1 == processRecalls(d, calls, NoRecall, settings.maxPages, FALSE)
            searchCalls == SelectSeq(calls, LAMBDA tc : tc.name \in SEARCH_TOOL_NAMES)
        IN  IF round2Issued(searchCalls, r1.pages, settings.maxPages)
            THEN /\ proc' = [proc EXCEPT ![p].pc = "round2", ![p].sel = r1.pages,
                                         ![p].chars = r1.characters,
                                         ![p].searched = (searchCalls # <<>>)]
                 /\ UNCHANGED <<store, lastRecalled, turn>>
            ELSE FinishTurn(p, proc[p], r1, "round1", searchCalls # <<>>)
    /\ UNCHANGED <<cur, chat, nextId, consecutiveFailures, toast, streak, hist, settings, parse, slot>>

\* Round 2 returns its tool calls, or the call threw (round 1 results stand)
retrieveRound2Returns(p) ==
    /\ p = "retr"
    /\ proc[p].pc = "round2"
    /\ LET d == store[proc[p].data]
           r1 == [pages |-> proc[p].sel, characters |-> proc[p].chars]
       IN  \/ FinishTurn(p, proc[p], r1, "failed2", proc[p].searched)
           \/ \E calls \in SeqsUpTo(ToolCalls(d), MaxToolCalls) :
                FinishTurn(p, proc[p],
                           processRecalls(d, calls, r1, settings.maxPages, TRUE),
                           "round2", proc[p].searched)
    /\ UNCHANGED <<cur, chat, nextId, consecutiveFailures, toast, streak, hist, settings, parse, slot>>

\* ------------------------------------------------------------------------
\*  The store under concurrent flows
\* ------------------------------------------------------------------------
\* Extraction, manual compression, page deletion and chat switching
Next ==
    \/ \E p \in Extractors, force \in BOOLEAN : safeExtract(p, force)
    \/ \E p \in Extractors : performExtractionFails(p)
    \/ \E p \in Extractors : performExtractionApplies(p)
    \/ \E p \in Compressors : embedPageReturns(p)
    \/ \E p \in Extractors : saveReturns(p)
    \/ \E p \in Extractors : hideReturns(p)
    \/ \E p \in Compressors : compressTimelineReturns(p)
    \/ \E p \in Compressors : compressPageReturns(p)
    \/ NewMessage
    \/ safeCompress("manual")
    \/ \E c \in Chats : onChatChanged(c)
    \/ \E id \in 1..MaxPageIds : onDeletePage(id)

Spec == Init /\ [][Next]_vars

\* Extraction and batch initialization in the open chat
NextBatch ==
    \/ \E p \in Extractors, force \in BOOLEAN : safeExtract(p, force)
    \/ \E p \in Extractors : performExtractionFails(p)
    \/ \E p \in Extractors : performExtractionApplies(p)
    \/ \E p \in Compressors : embedPageReturns(p)
    \/ \E p \in Extractors : saveReturns(p)
    \/ \E p \in Extractors : hideReturns(p)
    \/ \E p \in Compressors : compressTimelineReturns(p)
    \/ \E p \in Compressors : compressPageReturns(p)
    \/ NewMessage
    \/ performBatchInitialization("batch")
    \/ batchLoreReturns("batch")
    \/ batchChunkFails("batch")
    \/ batchChunkApplies("batch")
    \/ batchHideReturns("batch")

SpecBatch == Init /\ [][NextBatch]_vars

\* Extraction on one chat that grows to MaxLongChat messages
NextGrow ==
    \/ \E p \in Extractors, force \in BOOLEAN : safeExtract(p, force)
    \/ \E p \in Extractors : performExtractionFails(p)
    \/ \E p \in Extractors : performExtractionApplies(p)
    \/ \E p \in Compressors : embedPageReturns(p)
    \/ \E p \in Extractors : saveReturns(p)
    \/ \E p \in Extractors : hideReturns(p)
    \/ \E p \in Compressors : compressTimelineReturns(p)
    \/ \E p \in Compressors : compressPageReturns(p)
    \/ ChatGrows(MaxLongChat)

SpecGrow == Init /\ [][NextGrow]_vars

\* Batch initialization alone, on a chat of up to MaxLongChat messages
NextInitialize ==
    \/ ChatGrows(MaxLongChat)
    \/ performBatchInitialization("batch")
    \/ batchLoreReturns("batch")
    \/ batchChunkFails("batch")
    \/ batchChunkApplies("batch")
    \/ batchHideReturns("batch")

SpecInitialize == Init /\ [][NextInitialize]_vars

\* Extraction, manual compression, page deletion and retrieval turns in one chat
NextRecall ==
    \/ \E p \in Extractors, force \in BOOLEAN : safeExtract(p, force)
    \/ \E p \in Extractors : performExtractionFails(p)
    \/ \E p \in Extractors : performExtractionApplies(p)
    \/ \E p \in Compressors : embedPageReturns(p)
    \/ \E p \in Extractors : saveReturns(p)
    \/ \E p \in Extractors : hideReturns(p)
    \/ \E p \in Compressors : compressTimelineReturns(p)
    \/ \E p \in Compressors : compressPageReturns(p)
    \/ NewMessage
    \/ safeCompress("manual")
    \/ \E id \in 1..MaxPageIds : onDeletePage(id)
    \/ retrieveMemories("retr")
    \/ retrievePrefilterReturns("retr")
    \/ retrieveRound1Fails("retr")
    \/ retrieveRound1Returns("retr")
    \/ retrieveRound2Returns("retr")

SpecRecall == Init /\ [][NextRecall]_vars

\* CHARACTER_MESSAGE_RENDERED: the pages of the last retrieval are logged for
\* the rendered message when it has no entry yet
onMessageRendered(messageId) ==
    /\ messageId < chat[cur]
    /\ lastRecalled.pages # <<>>
    /\ getMemoryData.messageRecalls[messageId] = {}
    /\ store' = [store EXCEPT ![cur].messageRecalls[messageId] = Range(lastRecalled.pages)]
    /\ UNCHANGED <<cur, chat, proc, nextId, consecutiveFailures, toast, streak, hist, settings, lastRecalled, turn, parse, slot>>

\* ------------------------------------------------------------------------
\*  One store under compression cycles only
\* ------------------------------------------------------------------------
\* A page as an earlier session left it: FRESH as extraction wrote it, or
\* SUMMARY as compressPage left it at an earlier time
StoredPage(id, createdAt, level) ==
    [id |-> id,
     createdAt |-> createdAt,
     compressionLevel |-> level,
     content |-> IF level = COMPRESS_FRESH THEN "orig" ELSE "sum",
     compressedAt |-> IF level = COMPRESS_FRESH THEN 0 ELSE createdAt,
     keywords |-> <<W1>>,
     characters |-> <<>>,
     categories |-> <<>>,
     significance |-> "medium",
     sourceMessages |-> {}]

\* Stores of up to MaxCyclePages pages in any order of createdAt (an imported
\* or migrated store need not be in order) and a timeline of up to
\* MaxLines + 1 lines, with any ceilings up to MaxCeiling
InitCycle ==
    /\ cur = "chatA"
    /\ chat = [c \in Chats |-> 0]
    /\ \E n \in 0..MaxCyclePages :
        \E times \in [1..n -> 1..2], levels \in [1..n -> {COMPRESS_FRESH, COMPRESS_SUMMARY}],
           lines \in 0..(MaxLines + 1) :
            store = [c \in Chats |->
                        IF c = "chatA"
                        THEN [createDefaultData EXCEPT
                                !.timeline = lines,
                                !.pages = [i \in 1..n |-> StoredPage(i, times[i], levels[i])]]
                        ELSE createDefaultData]
    /\ proc = [p \in Procs |-> Idle]
    /\ nextId = MaxCyclePages + 1
    /\ consecutiveFailures = 0
    /\ toast = FALSE
    /\ streak = 0
    /\ hist = NoHist
    /\ \E a \in 0..MaxCeiling, b \in 0..MaxCeiling, t \in 0..MaxLines :
        settings = [SmallSettings EXCEPT !.compressAfterPages = a, !.archiveAfterPages = b,
                                         !.maxTimelineEntries = t]
    /\ lastRecalled = [pages |-> <<>>, characters |-> <<>>]
    /\ turn = NoTurn
    /\ parse = NoParse
    /\ slot = NoSlot

NextCycle ==
    \/ safeCompress("manual")
    \/ \E p \in Compressors : compressTimelineReturns(p)
    \/ \E p \in Compressors : compressPageReturns(p)
    \/ \E p \in Compressors : embedPageReturns(p)

SpecCycle == InitCycle /\ [][NextCycle]_vars

\* ------------------------------------------------------------------------
\*  Retrieval turns on one store
\* ------------------------------------------------------------------------
\* Three stored pages: one keyword each, which is also the name of a character
CatalogPage(id) ==
    LET kw == IF id = 1 THEN W1 ELSE IF id = 2 THEN W12 ELSE W2
    IN  [StoredPage(id, id, IF id = 3 THEN COMPRESS_FRESH ELSE COMPRESS_SUMMARY)
            EXCEPT !.keywords = <<kw>>,
                   !.characters = <<kw>>,
                   !.significance = IF id = 2 THEN "high" ELSE "medium"]

Increasing(seq) == \A i, j \in DOMAIN seq : i < j => seq[i] < seq[j]

\* Stores of catalog pages and three characters, with every page embedded or
\* none, and any maxPages / embeddingTopK
InitRetrieve ==
    /\ cur = "chatA"
    /\ chat = [c \in Chats |-> 0]
    /\ \E ids \in {q \in SeqsUpTo(1..MaxCyclePages, MaxCyclePages) : Increasing(q)},
          embedded \in BOOLEAN :
            store = [c \in Chats |->
                        IF c = "chatA"
                        THEN [createDefaultData EXCEPT
                                !.pages = [i \in DOMAIN ids |-> CatalogPage(ids[i])],
                                !.characters = <<[name |-> W1], [name |-> W2],
                                                 [name |-> W12]>>,
                                !.embeddings = IF embedded THEN Range(ids) ELSE {}]
                        ELSE createDefaultData]
    /\ proc = [p \in Procs |-> Idle]
    /\ nextId = MaxCyclePages + 1
    /\ consecutiveFailures = 0
    /\ toast = FALSE
    /\ streak = 0
    /\ hist = NoHist
    /\ \E m \in 0..MaxMaxPages, k \in 1..MaxTopK :
        settings = [SmallSettings EXCEPT !.maxPages = m, !.embeddingTopK = k]
    /\ lastRecalled = [pages |-> <<>>, characters |-> <<>>]
    /\ turn = NoTurn
    /\ parse = NoParse
    /\ slot = NoSlot

NextRetrieve ==
    \/ retrieveMemories("retr")
    \/ retrievePrefilterReturns("retr")
    \/ retrieveRound1Fails("retr")
    \/ retrieveRound1Returns("retr")
    \/ retrieveRound2Returns("retr")

SpecRetrieve == InitRetrieve /\ [][NextRetrieve]_vars

\* A chat whose store holds the pages earlier extractions and compression
\* cycles left
InitLog ==
    /\ cur = "chatA"
    /\ chat = [c \in Chats |-> 0]
    /\ \E n \in 0..MaxPageIds :
        \E levels \in [1..n -> {COMPRESS_FRESH, COMPRESS_SUMMARY}], lines \in 0..(MaxLines + 1) :
            store = [c \in Chats |->
                        IF c = "chatA"
                        THEN [createDefaultData EXCEPT
                                !.timeline = lines,
                                !.pages = [i \in 1..n |-> StoredPage(i, i, levels[i])]]
                        ELSE createDefaultData]
    /\ proc = [p \in Procs |-> Idle]
    /\ nextId = MaxPageIds + 1
    /\ consecutiveFailures = 0
    /\ toast = FALSE
    /\ streak = 0
    /\ hist = NoHist
    /\ settings = SmallSettings
    /\ lastRecalled = [pages |-> <<>>, characters |-> <<>>]
    /\ turn = Untraced
    /\ parse = NoParse
    /\ slot = NoSlot

\* Retrieval turns, message renders, archiving and page deletion in one chat
NextLog ==
    \/ NewMessage
    \/ retrieveMemories("retr")
    \/ retrievePrefilterReturns("retr")
    \/ retrieveRound1Fails("retr")
    \/ retrieveRound1Returns("retr")
    \/ retrieveRound2Returns("retr")
    \/ \E messageId \in 0..(MaxChatLen - 1) : onMessageRendered(messageId)
    \/ safeCompress("manual")
    \/ compressTimelineReturns("manual")
    \/ compressPageReturns("manual")
    \/ embedPageReturns("manual")
    \/ \E id \in 1..MaxPageIds : onDeletePage(id)

SpecLog == InitLog /\ [][NextLog]_vars

\* ------------------------------------------------------------------------
\*  Extraction attempts on one chat
\* ------------------------------------------------------------------------
\* A chat of at most one message whose store holds what an earlier extraction
\* or the world-book batch of an initialization left (the latter leaves
\* lastExtractedMessageId at -1)
InitExtract ==
    /\ cur = "chatA"
    /\ \E len \in 0..1, n \in 0..1, lines \in 0..1, last \in -1..0 :
        /\ last < len
        /\ chat = [c \in Chats |-> IF c = "chatA" THEN len ELSE 0]
        /\ store = [c \in Chats |->
                        IF c = "chatA"
                        THEN [createDefaultData EXCEPT
                                !.timeline = lines,
                                !.lastExtractedMessageId = last,
                                !.pages = [i \in 1..n |-> StoredPage(i, 1, COMPRESS_FRESH)]]
                        ELSE createDefaultData]
    /\ proc = [p \in Procs |-> Idle]
    /\ nextId = 2
    /\ consecutiveFailures = 0
    /\ toast = FALSE
    /\ streak = 0
    /\ hist = NoHist
    /\ settings = SmallSettings
    /\ lastRecalled = [pages |-> <<>>, characters |-> <<>>]
    /\ turn = NoTurn
    /\ parse = NoParse
    /\ slot = NoSlot

NextExtract ==
    \/ \E p \in Extractors, force \in BOOLEAN : safeExtract(p, force)
    \/ \E p \in Extractors : performExtractionFails(p)
    \/ \E p \in Extractors : performExtractionApplies(p)
    \/ \E p \in Compressors : embedPageReturns(p)
    \/ \E p \in Extractors : saveReturns(p)
    \/ \E p \in Extractors : hideReturns(p)
    \/ \E p \in Compressors : compressTimelineReturns(p)
    \/ \E p \in Compressors : compressPageReturns(p)
    \/ NewMessage

SpecExtract == InitExtract /\ [][NextExtract]_vars

\* $('#mm_known_characters').on('change'): the knownCharacters setting
onKnownCharactersChange(names) ==
    /\ names # settings.knownCharacters
    /\ settings' = [settings EXCEPT !.knownCharacters = names]
    /\ UNCHANGED <<cur, chat, store, proc, nextId, consecutiveFailures, toast, streak,
                   hist, lastRecalled, turn, parse, slot>>

\* Extractions whose results carry character lists, and changes of the
\* knownCharacters setting, on the empty store of one chat
InitChars ==
    /\ cur = "chatA"
    /\ chat = [c \in Chats |-> 0]
    /\ store = [c \in Chats |-> createDefaultData]
    /\ proc = [p \in Procs |-> Idle]
    /\ nextId = 1
    /\ consecutiveFailures = 0
    /\ toast = FALSE
    /\ streak = 0
    /\ hist = NoHist
    /\ settings = SmallSettings
    /\ lastRecalled = [pages |-> <<>>, characters |-> <<>>]
    /\ turn = NoTurn
    /\ parse = NoParse
    /\ slot = NoSlot

NextChars ==
    \/ \E p \in Extractors, force \in BOOLEAN : safeExtract(p, force)
    \/ \E p \in Extractors : performExtractionFails(p)
    \/ \E p \in Extractors : performExtractionAppliesFrom(p, CastResults)
    \/ \E p \in Extractors : saveReturns(p)
    \/ \E p \in Extractors : hideReturns(p)
    \/ ChatGrows(MaxCastChat)
    \/ \E names \in SUBSET {W2, userName} : onKnownCharactersChange(names)

SpecChars == InitChars /\ [][NextChars]_vars

\* Extractions whose pages get ids with any random parts
NextIds ==
    \/ \E p \in Extractors, force \in BOOLEAN : safeExtract(p, force)
    \/ \E p \in Extractors : performExtractionFails(p)
    \/ \E p \in Extractors : performExtractionAppliesFrom(p, ResultsAnyRandom)
    \/ \E p \in Compressors : embedPageReturns(p)
    \/ \E p \in Extractors : saveReturns(p)
    \/ \E p \in Extractors : hideReturns(p)
    \/ \E p \in Compressors : compressTimelineReturns(p)
    \/ \E p \in Compressors : compressPageReturns(p)
    \/ NewMessage

SpecIds == Init /\ [][NextIds]_vars

\* Extraction and batch initialization on one chat
NextAttempts ==
    \/ \E p \in Extractors, force \in BOOLEAN : safeExtract(p, force)
    \/ \E p \in Extractors : performExtractionFails(p)
    \/ \E p \in Extractors : performExtractionApplies(p)
    \/ \E p \in Compressors : embedPageReturns(p)
    \/ \E p \in Extractors : saveReturns(p)
    \/ \E p \in Extractors : hideReturns(p)
    \/ \E p \in Compressors : compressTimelineReturns(p)
    \/ \E p \in Compressors : compressPageReturns(p)
    \/ NewMessage
    \/ performBatchInitialization("batch")
    \/ batchLoreReturns("batch")
    \/ batchChunkFails("batch")
    \/ batchChunkApplies("batch")
    \/ batchHideReturns("batch")

\* Every awaited call settles: each continuation that is enabled is
\* eventually run
Settles ==
    /\ \A p \in Extractors : WF_vars(performExtractionFails(p) \/ performExtractionApplies(p))
    /\ \A p \in Compressors : WF_vars(embedPageReturns(p))
    /\ \A p \in Extractors : WF_vars(saveReturns(p))
    /\ \A p \in Extractors : WF_vars(hideReturns(p))
    /\ \A p \in Compressors : WF_vars(compressTimelineReturns(p))
    /\ \A p \in Compressors : WF_vars(compressPageReturns(p))
    /\ WF_vars(batchLoreReturns("batch"))
    /\ WF_vars(batchChunkFails("batch") \/ batchChunkApplies("batch"))
    /\ WF_vars(batchHideReturns("batch"))

SpecSettles == InitExtract /\ [][NextAttempts]_vars /\ Settles

\* ------------------------------------------------------------------------
\*  Version migration
\* ------------------------------------------------------------------------
\* A page of a stored v2 / v3 store, or a memory of a v1 store.  Only the
\* fields the migrations read or write are kept: `categoriesDefined` is
\* Array.isArray(p.categories).
OldPage(id, status, categoriesDefined) ==
    [id |-> id, status |-> status, keywords |-> <<W1>>,
     compressionLevel |-> COMPRESS_FRESH,
     categoriesDefined |-> categoriesDefined, categories |-> <<>>]

\* chatMetadata.memoryManager as an earlier version of the program saved it
OldStore(version, storyBible, chars, entries) ==
    [version |-> version,
     storyBible |-> storyBible,
     sbTimeline |-> IF storyBible THEN 1 ELSE 0,
     sbCharacters |-> IF storyBible THEN chars ELSE <<>>,
     memories |-> IF storyBible THEN entries ELSE <<>>,
     timeline |-> IF storyBible THEN 0 ELSE 1,
     knownCharacterAttitudes |-> <<>>,
     characters |-> IF storyBible THEN <<>> ELSE chars,
     items |-> <<>>,
     pages |-> IF storyBible THEN <<>> ELSE entries,
     embeddings |-> {},
     lastExtractedMessageId |-> 0,
     extractionInProgress |-> FALSE,
     messageRecalls |-> [m \in 0..MaxChatLen |-> {}]]

migrateV1toV2(oldData) ==
    [createDefaultData EXCEPT
        !.timeline = IF oldData.storyBible /\ oldData.sbTimeline # 0
                     THEN oldData.sbTimeline ELSE @,
        !.characters = IF oldData.storyBible THEN oldData.sbCharacters ELSE @,
        !.pages = LET active == SelectSeq(oldData.memories, LAMBDA m : m.status = "active")
                  IN  [i \in DOMAIN active |->
                        [active[i] EXCEPT !.categoriesDefined = FALSE]],
        !.lastExtractedMessageId = oldData.lastExtractedMessageId,
        !.extractionInProgress = oldData.extractionInProgress,
        !.messageRecalls = oldData.messageRecalls]

migrateV2toV3(oldData) ==
    [createDefaultData EXCEPT
        !.timeline = oldData.timeline,
        !.items = oldData.items,
        !.pages = oldData.pages,
        !.lastExtractedMessageId = oldData.lastExtractedMessageId,
        !.extractionInProgress = oldData.extractionInProgress,
        !.messageRecalls = oldData.messageRecalls,
        !.knownCharacterAttitudes =
            SelectSeq(oldData.characters, LAMBDA c : c.name \in KnownNames),
        !.characters =
            SelectSeq(oldData.characters, LAMBDA c : c.name \notin KnownNames)]

migrateV3toV4(oldData) ==
    [createDefaultData EXCEPT
        !.timeline = oldData.timeline,
        !.knownCharacterAttitudes = oldData.knownCharacterAttitudes,
        !.characters = oldData.characters,
        !.items = oldData.items,
        !.lastExtractedMessageId = oldData.lastExtractedMessageId,
        !.extractionInProgress = oldData.extractionInProgress,
        !.messageRecalls = oldData.messageRecalls,
        !.pages = [i \in DOMAIN oldData.pages |->
                    [oldData.pages[i] EXCEPT !.categoriesDefined = TRUE]],
        !.embeddings = {}]

\* `d.storyBible` is truthy
hasStoryBible(d) == "storyBible" \in DOMAIN d /\ d.storyBible

\* The three conditional migration steps shared by getMemoryData,
\* loadFromSlot and onImportClick, without a final version stamp
chainSteps(d) ==
    LET first == d.version = 1 \/ hasStoryBible(d)
        d1 == IF first THEN migrateV1toV2(d) ELSE d
        second == d1.version = 2
        d2 == IF second THEN migrateV2toV3(d1) ELSE d1
        third == d2.version = 3
        d3 == IF third THEN migrateV3toV4(d2) ELSE d2
    IN  [data |-> d3,
         steps |-> (IF first THEN <<"migrateV1toV2">> ELSE <<>>)
                   \o (IF second THEN <<"migrateV2toV3">> ELSE <<>>)
                   \o (IF third THEN <<"migrateV3toV4">> ELSE <<>>)]

\* Variant: the chain without `d.version = DATA_VERSION`
migrationChain_keepsVersion(d) == chainSteps(d)

\* Variant: the chain stamps the previous version number
migrationChain_stampsV3(d) ==
    [data |-> [chainSteps(d).data EXCEPT !.version = DATA_VERSION - 1],
     steps |-> chainSteps(d).steps]

\* getMemoryData, "Handle migration chain": the store it installs and the
\* migrations it has logged, in order
migrationChain(d) ==
    LET first == d.version = 1 \/ d.storyBible
        d1 == IF first THEN migrateV1toV2(d) ELSE d
        second == d1.version = 2
        d2 == IF second THEN migrateV2toV3(d1) ELSE d1
        third == d2.version = 3
        d3 == IF third THEN migrateV3toV4(d2) ELSE d2
    IN  [data |-> [d3 EXCEPT !.version = DATA_VERSION],
         steps |-> (IF first THEN <<"migrateV1toV2">> ELSE <<>>)
                   \o (IF second THEN <<"migrateV2toV3">> ELSE <<>>)
                   \o (IF third THEN <<"migrateV3toV4">> ELSE <<>>)]

\* getMemoryData(): the store it returns and leaves in chatMetadata
getMemoryDataOf(d) ==
    IF d.version # DATA_VERSION THEN migrationChain(d).data ELSE d

\* What the latest load has done: the operation, the version of the store it replaced,
\* the version and format of the data it read, and the migrations it ran
LoadRecord(op, c, before, d, steps) ==
    [op |-> op, chat |-> c, before |-> before, from |-> d.version,
     storyBible |-> hasStoryBible(d), steps |-> steps]

\* getMemoryData on a store whose version is not DATA_VERSION
getMemoryDataMigrates ==
    /\ store[cur].version # DATA_VERSION
    /\ store' = [store EXCEPT ![cur] = getMemoryDataOf(@)]
    /\ hist' = {LoadRecord("getMemoryData", cur, store[cur].version,
                                     store[cur], migrationChain(store[cur]).steps)}
    /\ UNCHANGED <<cur, chat, proc, nextId, consecutiveFailures, toast, streak, settings, lastRecalled, turn, parse, slot>>

\* Saved stores: as versions 1 to 4 wrote them (0: no version field), with up
\* to MaxOldEntries characters and pages
SavedStores ==
    {IF version = DATA_VERSION /\ ~storyBible
     THEN createDefaultData
     ELSE OldStore(version, storyBible,
                   [i \in DOMAIN names |-> [name |-> names[i]]],
                   [i \in DOMAIN kinds |-> OldPage(i, kinds[i][1], kinds[i][2])]) :
        version \in 0..DATA_VERSION, storyBible \in BOOLEAN,
        names \in SeqsUpTo({W1, W2}, MaxOldEntries),
        kinds \in SeqsUpTo({"active", "archived"} \X BOOLEAN, MaxOldEntries)}

\* A page of a JSON file that carries category tags
TaggedPage(id, cats) == [OldPage(id, "active", TRUE) EXCEPT !.categories = cats]

\* JSON.parse(text) of onImportClick: a saved store, or a version-3 or
\* version-4 file with a page that carries a tag of the enum or another tag
ImportFiles ==
    SavedStores \cup
    {OldStore(version, FALSE, <<>>, <<TaggedPage(1, cats)>>) :
        version \in (DATA_VERSION - 1)..DATA_VERSION,
        cats \in {<<"emotional">>, <<"other">>}}

\* loadFromSlot: the fetched save goes through the chain, is stamped
\* DATA_VERSION and replaces the store; updateBrowserUI() reads it back
loadFromSlotOf(files) ==
    /\ \E imported \in files :
        LET d == [chainSteps(imported).data EXCEPT !.version = DATA_VERSION]
        IN  /\ store' = [store EXCEPT ![cur] = getMemoryDataOf(d)]
            /\ hist' = {LoadRecord("loadFromSlot", cur, store[cur].version,
                                             imported, chainSteps(imported).steps)}
    /\ UNCHANGED <<cur, chat, proc, nextId, consecutiveFailures, toast, streak, settings, lastRecalled, turn, parse, slot>>

\* A slot that an earlier session saved
loadFromSlot == loadFromSlotOf(SavedStores)

\* onImportClick: the parsed file goes through the chain and replaces the
\* store as it is; updateBrowserUI() then calls getMemoryData()
onImportClick ==
    /\ \E imported \in ImportFiles :
        LET d == chainSteps(imported).data
        IN  /\ store' = [store EXCEPT ![cur] = getMemoryDataOf(d)]
            /\ hist' = {LoadRecord("onImportClick", cur, store[cur].version,
                                             imported, chainSteps(imported).steps)}
    /\ UNCHANGED <<cur, chat, proc, nextId, consecutiveFailures, toast, streak, settings, lastRecalled, turn, parse, slot>>

\* The current chat holds a saved store
InitMigrate ==
    /\ cur = "chatA"
    /\ chat = [c \in Chats |-> 0]
    /\ \E saved \in SavedStores :
        store = [c \in Chats |-> IF c = "chatA" THEN saved ELSE createDefaultData]
    /\ proc = [p \in Procs |-> Idle]
    /\ nextId = MaxOldEntries + 1
    /\ consecutiveFailures = 0
    /\ toast = FALSE
    /\ streak = 0
    /\ hist = NoHist
    /\ settings = SmallSettings
    /\ lastRecalled = [pages |-> <<>>, characters |-> <<>>]
    /\ turn = NoTurn
    /\ parse = NoParse
    /\ slot = NoSlot

NextMigrate ==
    \/ getMemoryDataMigrates
    \/ loadFromSlot
    \/ onImportClick

SpecMigrate == InitMigrate /\ [][NextMigrate]_vars

\* ------------------------------------------------------------------------
\*  Save slots
\* ------------------------------------------------------------------------
\* The save button: saveToSlot serializes the open chat's store and uploads
\* it, and the slot becomes the active one
saveToSlot ==
    /\ slot' = getMemoryData
    /\ UNCHANGED <<cur, chat, store, proc, nextId, consecutiveFailures, toast, streak, hist, settings, lastRecalled, turn, parse>>

\* The load button, or the toast of onChatChanged: the active slot is loaded
loadActiveSlot ==
    /\ slot # NoSlot
    /\ loadFromSlotOf({slot})

\* Extraction with the auto-save on
InitSlots ==
    /\ cur = "chatA"
    /\ chat = [c \in Chats |-> 0]
    /\ store = [c \in Chats |-> createDefaultData]
    /\ proc = [p \in Procs |-> Idle]
    /\ nextId = 1
    /\ consecutiveFailures = 0
    /\ toast = FALSE
    /\ streak = 0
    /\ hist = NoHist
    /\ settings = [SmallSettings EXCEPT !.autoSaveSlot = TRUE]
    /\ lastRecalled = [pages |-> <<>>, characters |-> <<>>]
    /\ turn = Untraced
    /\ parse = NoParse
    /\ slot = NoSlot

NextSlots ==
    \/ NewMessage
    \/ \E p \in Extractors, force \in BOOLEAN : safeExtract(p, force)
    \/ \E p \in Extractors : performExtractionFails(p)
    \/ \E p \in Extractors : performExtractionApplies(p)
    \/ \E p \in Compressors : embedPageReturns(p)
    \/ \E p \in Extractors : saveReturns(p)
    \/ \E p \in Extractors : hideReturns(p)
    \/ \E p \in Compressors : compressTimelineReturns(p)
    \/ \E p \in Compressors : compressPageReturns(p)
    \/ saveToSlot
    \/ loadActiveSlot

SpecSlots == InitSlots /\ [][NextSlots]_vars

\* ------------------------------------------------------------------------
\*  The parser of generated text
\* ------------------------------------------------------------------------
\* A text is a sequence of characters.  Fence stands for the three backticks
\* of a code fence and SmartQuote for a curly double quote.
Quote == "\""

Backslash == "\\"

Fence == "FENCE"

SmartQuote == "LDQUO"

Backspace == "BS"

\* \s of a regular expression, and the whitespace of JSON
Whitespace == {" ", "\t", "\n", "\r"}

RECURSIVE skipWs(_, _)
skipWs(s, i) ==
    IF i <= Len(s) /\ s[i] \in Whitespace THEN skipWs(s, i + 1) ELSE i

\* text.trim()
RECURSIVE trim(_)
trim(s) ==
    IF s = <<>> THEN s
    ELSE IF Head(s) \in Whitespace THEN trim(Tail(s))
    ELSE IF s[Len(s)] \in Whitespace THEN trim(SubSeq(s, 1, Len(s) - 1))
    ELSE s

\* fixJsonString: while (j < raw.length && (raw[j] === ' ' || raw[j] === '\t')) j++
RECURSIVE peek(_, _)
peek(raw, j) ==
    IF j <= Len(raw) /\ raw[j] \in {" ", "\t"} THEN peek(raw, j + 1) ELSE j

\* A closing quote that is never taken for one
closingQuote_never(raw, i) == FALSE

\* fixJsonString: the quote at i closes the string when the next character
\* after blanks is structural, a line end or the end of the text
closingQuote(raw, i) ==
    LET j == peek(raw, i + 1)
    IN  j > Len(raw) \/ raw[j] \in {":", ",", "}", "]", "\n", "\r"}

\* fixJsonString: the character scan
RECURSIVE scan(_, _, _, _, _)
scan(raw, i, inString, escaped, result) ==
    IF i > Len(raw) THEN result
    ELSE LET ch == raw[i]
         IN  IF escaped
             THEN scan(raw, i + 1, inString, FALSE, Append(result, ch))
             ELSE IF ch = Backslash /\ inString
             THEN scan(raw, i + 1, inString, TRUE, Append(result, ch))
             ELSE IF ch = Quote
             THEN IF ~inString
                  THEN scan(raw, i + 1, TRUE, FALSE, Append(result, ch))
                  ELSE IF closingQuote(raw, i)
                  THEN scan(raw, i + 1, FALSE, FALSE, Append(result, ch))
                  ELSE scan(raw, i + 1, TRUE, FALSE, result \o <<Backslash, Quote>>)
             ELSE IF inString /\ ch = "\n"
             THEN scan(raw, i + 1, inString, FALSE, result \o <<Backslash, "n">>)
             ELSE IF inString /\ ch = "\r"
             THEN scan(raw, i + 1, inString, FALSE, result)
             ELSE IF inString /\ ch = "\t"
             THEN scan(raw, i + 1, inString, FALSE, result \o <<Backslash, "t">>)
             ELSE scan(raw, i + 1, inString, FALSE, Append(result, ch))

\* The scan as a record of its steps: for each character of raw, the flags
\* when it is read and what is appended to result for it
RECURSIVE scanTrace(_, _, _, _)
scanTrace(raw, i, inString, escaped) ==
    IF i > Len(raw) THEN <<>>
    ELSE LET ch == raw[i]
             step(out, nextInString, nextEscaped) ==
                <<[inString |-> inString, escaped |-> escaped, out |-> out,
                   after |-> nextInString]>>
                \o scanTrace(raw, i + 1, nextInString, nextEscaped)
         IN  IF escaped THEN step(<<ch>>, inString, FALSE)
             ELSE IF ch = Backslash /\ inString THEN step(<<ch>>, inString, TRUE)
             ELSE IF ch = Quote
             THEN IF ~inString THEN step(<<ch>>, TRUE, FALSE)
                  ELSE IF closingQuote(raw, i) THEN step(<<ch>>, FALSE, FALSE)
                  ELSE step(<<Backslash, Quote>>, TRUE, FALSE)
             ELSE IF inString /\ ch = "\n" THEN step(<<Backslash, "n">>, inString, FALSE)
             ELSE IF inString /\ ch = "\r" THEN step(<<>>, inString, FALSE)
             ELSE IF inString /\ ch = "\t" THEN step(<<Backslash, "t">>, inString, FALSE)
             ELSE step(<<ch>>, inString, FALSE)

\* A final pass that strips nothing
stripTrailingCommas_keeps(s) == s

\* result.replace(/,\s*([}\]])/g, '$1')
RECURSIVE stripFrom(_, _, _)
stripFrom(s, i, out) ==
    IF i > Len(s) THEN out
    ELSE IF s[i] = ","
    THEN LET j == skipWs(s, i + 1)
         IN  IF j <= Len(s) /\ s[j] \in {"}", "]"}
             THEN stripFrom(s, j + 1, Append(out, s[j]))
             ELSE stripFrom(s, i + 1, Append(out, s[i]))
    ELSE stripFrom(s, i + 1, Append(out, s[i]))

stripTrailingCommas(s) == stripFrom(s, 1, <<>>)

fixJsonString(raw) == stripTrailingCommas(scan(raw, 1, FALSE, FALSE, <<>>))

\* JSON.parse of a text that holds no digit and no letter of true, false or
\* null: a value is a string, an object or an array
Str(chars) == [t |-> "str", chars |-> chars]

Obj(members) == [t |-> "obj", members |-> members]

Arr(elems) == [t |-> "arr", elems |-> elems]

Null == [t |-> "null"]

SyntaxError == [t |-> "throws"]

Fail == [ok |-> FALSE, v |-> SyntaxError, i |-> 0]

Escapes == {Quote, Backslash, "/", "b", "f", "n", "r", "t"}

Unescape(c) ==
    CASE c = "b" -> Backspace
      [] c = "f" -> "\f"
      [] c = "n" -> "\n"
      [] c = "r" -> "\r"
      [] c = "t" -> "\t"
      [] OTHER -> c

\* the characters of a string from i, the opening quote being at i - 1
RECURSIVE parseChars(_, _, _)
parseChars(s, i, acc) ==
    IF i > Len(s) THEN Fail
    ELSE IF s[i] = Quote THEN [ok |-> TRUE, v |-> Str(acc), i |-> i + 1]
    ELSE IF s[i] = Backslash
    THEN IF i + 1 <= Len(s) /\ s[i + 1] \in Escapes
         THEN parseChars(s, i + 2, Append(acc, Unescape(s[i + 1])))
         ELSE Fail
    ELSE IF s[i] \in {"\n", "\r", "\t"} THEN Fail
    ELSE parseChars(s, i + 1, Append(acc, s[i]))

\* obj[key] = value: a repeated key keeps its place and takes the new value
put(members, k, v) ==
    IF \E n \in DOMAIN members : members[n].k = k
    THEN [n \in DOMAIN members |->
            IF members[n].k = k THEN [k |-> k, v |-> v] ELSE members[n]]
    ELSE Append(members, [k |-> k, v |-> v])

RECURSIVE parseValue(_, _)
RECURSIVE parseMembers(_, _, _)
RECURSIVE parseElements(_, _, _)
parseValue(s, i) ==
    LET j == skipWs(s, i)
    IN  IF j > Len(s) THEN Fail
        ELSE IF s[j] = Quote THEN parseChars(s, j + 1, <<>>)
        ELSE IF s[j] = "{"
        THEN LET k == skipWs(s, j + 1)
             IN  IF k <= Len(s) /\ s[k] = "}"
                 THEN [ok |-> TRUE, v |-> Obj(<<>>), i |-> k + 1]
                 ELSE parseMembers(s, k, <<>>)
        ELSE IF s[j] = "["
        THEN LET k == skipWs(s, j + 1)
             IN  IF k <= Len(s) /\ s[k] = "]"
                 THEN [ok |-> TRUE, v |-> Arr(<<>>), i |-> k + 1]
                 ELSE parseElements(s, k, <<>>)
        ELSE Fail

parseMembers(s, i, acc) ==
    IF i > Len(s) \/ s[i] # Quote THEN Fail
    ELSE LET key == parseChars(s, i + 1, <<>>)
         IN  IF ~key.ok THEN Fail
             ELSE LET c == skipWs(s, key.i)
                  IN  IF c > Len(s) \/ s[c] # ":" THEN Fail
                      ELSE LET val == parseValue(s, c + 1)
                           IN  IF ~val.ok THEN Fail
                               ELSE LET e == skipWs(s, val.i)
                                        all == put(acc, key.v.chars, val.v)
                                    IN  IF e > Len(s) THEN Fail
                                        ELSE IF s[e] = ","
                                        THEN parseMembers(s, skipWs(s, e + 1), all)
                                        ELSE IF s[e] = "}"
                                        THEN [ok |-> TRUE, v |-> Obj(all), i |-> e + 1]
                                        ELSE Fail

parseElements(s, i, acc) ==
    LET val == parseValue(s, i)
    IN  IF ~val.ok THEN Fail
        ELSE LET e == skipWs(s, val.i)
                 all == Append(acc, val.v)
             IN  IF e > Len(s) THEN Fail
                 ELSE IF s[e] = "," THEN parseElements(s, e + 1, all)
                 ELSE IF s[e] = "]" THEN [ok |-> TRUE, v |-> Arr(all), i |-> e + 1]
                 ELSE Fail

JSONparse(s) ==
    LET r == parseValue(s, 1)
    IN  IF r.ok /\ skipWs(s, r.i) > Len(s) THEN r.v ELSE SyntaxError

Positions(text, ch) == {i \in DOMAIN text : text[i] = ch}

Lowest(S) == CHOOSE x \in S : \A y \in S : x <= y

Highest(S) == CHOOSE x \in S : \A y \in S : y <= x

\* text.match(/```(?:json)?\s*\n?([\s\S]+)\n?\s*```/): the first fence that
\* has a character between it and the last fence, and what lies between
blockMatch(text) ==
    LET fences == Positions(text, Fence)
        opening == {f \in fences : \E g \in fences : g >= f + 2}
    IN  IF opening = {} THEN <<>>
        ELSE <<SubSeq(text, Lowest(opening) + 1, Highest(fences) - 1)>>

\* text.substring(text.indexOf('{'), text.lastIndexOf('}') + 1)
braceMatch(text) ==
    LET opens == Positions(text, "{")
        closes == Positions(text, "}")
    IN  IF opens # {} /\ closes # {} /\ Highest(closes) > Lowest(opens)
        THEN <<SubSeq(text, Lowest(opens), Highest(closes))>>
        ELSE <<>>

\* raw.replace(/[“”...]/g, '\\"')
RECURSIVE straighten(_)
straighten(raw) ==
    IF raw = <<>> THEN raw
    ELSE (IF Head(raw) = SmartQuote THEN <<Backslash, Quote>> ELSE <<Head(raw)>>)
            \o straighten(Tail(raw))

\* One strategy of parseJsonResponse: the candidates it found, sanitized and
\* parsed
Strategy(found) ==
    IF found = <<>> THEN SyntaxError ELSE JSONparse(fixJsonString(found[1]))

parseJsonResponse(text) ==
    IF text = <<>> THEN Null
    ELSE LET first == Strategy(IF blockMatch(text) = <<>> THEN <<>>
                               ELSE <<trim(blockMatch(text)[1])>>)
             second == Strategy(braceMatch(text))
             third == Strategy(IF braceMatch(text) = <<>> THEN <<>>
                               ELSE <<straighten(braceMatch(text)[1])>>)
         IN  IF first # SyntaxError THEN first
             ELSE IF second # SyntaxError THEN second
             ELSE IF third # SyntaxError THEN third
             ELSE Null

\* ------------------------------------------------------------------------
\*  The merge of one parsed result
\* ------------------------------------------------------------------------
\* An entry of result.newPages with a tag outside the enum
OddRaw == [GoodRaw EXCEPT !.categories = <<"emotional", "other">>]

\* Entries of the character lists of a result: a known name (W1), an
\* unrecognized one (W2), the protagonist, a missing name, a name that is
\* not a string
CastAny == [name : {W1, W2, userName, NoName, NotAString}]

\* Results with any defect a generator's lists may have
MergeResults ==
    {[timeline |-> t, newPages |-> ps, knownCharacterAttitudes |-> k,
      splitFormat |-> f,
      newCharacters |-> IF f THEN c ELSE <<>>,
      characters |-> IF f THEN <<>> ELSE c,
      random |-> DistinctRandom] :
        t \in 0..1, ps \in {<<>>, <<GoodRaw>>, <<BadRaw, OddRaw>>},
        k \in SeqsUpTo(CastAny, MaxCast + 1), c \in SeqsUpTo(CastAny, MaxCast),
        f \in BOOLEAN}

\* The store of a chat before the merge, and the parsed result in hand
InitMerge ==
    /\ cur = "chatA"
    /\ chat = [c \in Chats |-> 1]
    /\ \E lines \in 0..1, known \in {<<>>, <<[name |-> W1]>>},
          npcs \in {<<>>, <<[name |-> W2]>>} :
            store = [c \in Chats |->
                        IF c = "chatA"
                        THEN [createDefaultData EXCEPT
                                !.timeline = lines,
                                !.knownCharacterAttitudes = known,
                                !.characters = npcs]
                        ELSE createDefaultData]
    /\ proc = [p \in Procs |-> Idle]
    /\ nextId = 1
    /\ consecutiveFailures = 0
    /\ toast = FALSE
    /\ streak = 0
    /\ hist = NoHist
    /\ settings = SmallSettings
    /\ lastRecalled = [pages |-> <<>>, characters |-> <<>>]
    /\ turn = NoTurn
    /\ slot = NoSlot
    /\ \E result \in MergeResults :
        parse = [text |-> <<>>, result |-> result, prior |-> store["chatA"],
                 merged |-> FALSE, threw |-> FALSE]

\* applyExtractionResult(data, result) of performExtraction returns or throws
applyExtractionResultReturns ==
    /\ ~parse.merged
    /\ LET out == mergeOutcome(store[cur], parse.result, nextId, nextId)
       IN  /\ store' = [store EXCEPT ![cur] = out.data]
           /\ parse' = [parse EXCEPT !.merged = TRUE, !.threw = out.threw]
           /\ nextId' = nextId + Len(out.data.pages) - Len(store[cur].pages)
    /\ UNCHANGED <<cur, chat, proc, consecutiveFailures, toast, streak, hist, settings,
                   lastRecalled, turn, slot>>

NextMerge == applyExtractionResultReturns

SpecMerge == InitMerge /\ [][NextMerge]_vars

\* What the generator writes: an object with the key "a" whose value is a
\* string, or an array of one string, with the characters of the string
\* written as they are (quotes and line ends not escaped), a trailing comma
\* or none before each closing bracket, bare, in a code fence or in prose
ContentChars == {"a", "b", Quote, ",", ":", "}", "]", " ", "\n"}

Shapes == {"string", "array"}

Trailing == {<<>>, <<",">>, <<",", " ">>}

Wraps == {"bare", "fenced", "prose"}

Written(content, shape, trailing) ==
    IF shape = "string"
    THEN <<"{", Quote, "a", Quote, ":", Quote>> \o content \o <<Quote>>
            \o trailing \o <<"}">>
    ELSE <<"{", Quote, "a", Quote, ":", "[", Quote>> \o content \o <<Quote>>
            \o trailing \o <<"]">> \o trailing \o <<"}">>

Wrapped(body, wrap) ==
    CASE wrap = "bare" -> body
      [] wrap = "fenced" -> <<Fence, "\n">> \o body \o <<"\n", Fence>>
      [] wrap = "prose" -> <<"a", " ">> \o body \o <<" ", "b">>

\* The value the generator meant
Meant(content, shape) ==
    Obj(<<[k |-> <<"a">>,
           v |-> IF shape = "string" THEN Str(content) ELSE Arr(<<Str(content)>>)]>>)

InitParse ==
    /\ cur = "chatA"
    /\ chat = [c \in Chats |-> 0]
    /\ store = [c \in Chats |-> createDefaultData]
    /\ proc = [p \in Procs |-> Idle]
    /\ nextId = 1
    /\ consecutiveFailures = 0
    /\ toast = FALSE
    /\ streak = 0
    /\ hist = NoHist
    /\ settings = SmallSettings
    /\ lastRecalled = [pages |-> <<>>, characters |-> <<>>]
    /\ turn = NoTurn
    /\ slot = NoSlot
    /\ \E content \in SeqsUpTo(ContentChars, MaxContent), shape \in Shapes,
          trailing \in Trailing, wrap \in Wraps :
            parse = [content |-> content, shape |-> shape, trailing |-> trailing,
                     wrap |-> wrap,
                     text |-> Wrapped(Written(content, shape, trailing), wrap),
                     result |-> Unparsed]

\* const result = parseJsonResponse(response)
parseJsonResponseReturns ==
    /\ parse.text # <<>>
    /\ parse.result = Unparsed
    /\ parse' = [parse EXCEPT !.result = parseJsonResponse(parse.text)]
    /\ UNCHANGED <<cur, chat, store, proc, nextId, consecutiveFailures, toast, streak,
                   hist, settings, lastRecalled, turn, slot>>

NextParse == parseJsonResponseReturns

SpecParse == InitParse /\ [][NextParse]_vars

\* ------------------------------------------------------------------------
\*  Properties
\* ------------------------------------------------------------------------
RecallRefs(d) == UNION {d.messageRecalls[m] : m \in DOMAIN d.messageRecalls}

C2_OneExtractionInFlight ==
    \A c \in Chats :
        Cardinality({p \in Extractors \cup {"batch"} :
                        proc[p].pc # "idle" /\ proc[p].data = c}) <= 1

\* C3: every key of the embeddings map is the id of a page in the store.
C3_EmbeddingsOnlyForPages ==
    \A c \in Chats : store[c].embeddings \subseteq PageIdsOf(store[c])

\* C4: the step in which archivePage removes a page leaves neither the page
\* nor its embedding nor a recall-log reference to it in the store.
C4_ArchiveLeavesNoReference ==
    [][\A r \in hist' \ hist :
            /\ r.id \notin PageIdsOf(store'[r.chat])
            /\ r.id \notin store'[r.chat].embeddings
            /\ r.id \notin RecallRefs(store'[r.chat])]_vars

\* C4: a page that had an embedding and a recall-log reference was archived
C4_Witness ==
    \E r \in hist : r.hadEmbedding /\ r.hadRecall

PageById(d, id) == d.pages[findIndex(d.pages, id)]

\* A FRESH page as extraction wrote it
Pristine(q) ==
    q.compressionLevel = COMPRESS_FRESH /\ q.content = "orig" /\ q.compressedAt = 0

\* Page id was compressed: it is SUMMARY in d, or archiving has removed it
Summarised(d, id) ==
    \/ id \notin PageIdsOf(d)
    \/ /\ PageById(d, id).compressionLevel = COMPRESS_SUMMARY
       /\ PageById(d, id).content = "sum"
       /\ PageById(d, id).compressedAt # 0

\* Page a is older than page b (equal createdAt: earlier in the store)
Older(d, a, b) ==
    \/ PageById(d, a).createdAt < PageById(d, b).createdAt
    \/ /\ PageById(d, a).createdAt = PageById(d, b).createdAt
       /\ findIndex(d.pages, a) < findIndex(d.pages, b)

\* The k oldest of the page ids F in store d
Oldest(d, F, k) == {a \in F : Cardinality({b \in F : Older(d, b, a)}) < k}

\* The manual cycle returns in this step, after at least one compressPage call
CycleEnds ==
    /\ proc["manual"].pc \in {"compress", "reembed"}
    /\ proc'["manual"].pc = "idle"

\* The manual cycle computes freshPages / toCompress in this step
CyclePlans ==
    /\ proc["manual"].pc \in {"idle", "timeline"}
    /\ proc'["manual"].pc # "timeline"

\* A cycle that finds the FRESH count at or below the ceiling issues no
\* compressPage call and leaves every FRESH page as it is
AtCeilingNothingCompressed ==
    CyclePlans =>
        LET c == IF proc["manual"].pc = "idle" THEN cur ELSE proc["manual"].cdata
        IN  FreshCount(store[c]) <= settings.compressAfterPages =>
                /\ proc'["manual"].pc = "idle"
                /\ \A i \in DOMAIN store[c].pages :
                        store[c].pages[i].compressionLevel = COMPRESS_FRESH =>
                            /\ store[c].pages[i].id \in PageIdsOf(store'[c])
                            /\ PageById(store'[c], store[c].pages[i].id) = store[c].pages[i]

\* C5 as the spec states it: when a compression cycle that found FRESH pages
\* above the ceiling returns, the FRESH count is at most the ceiling; a cycle
\* that finds the count at or below the ceiling compresses nothing.
C5_FreshWithinCeiling ==
    [][/\ CycleEnds =>
            FreshCount(store'[proc["manual"].cdata]) <= settings.compressAfterPages
       /\ AtCeilingNothingCompressed]_vars

\* C5, amended: when a compression cycle that runs alone on its store returns,
\* the FRESH count is at most the ceiling plus the number of pages of its
\* toCompress list that are still FRESH (their compressPage call threw or
\* returned too short a text); a cycle that finds the count at or below the
\* ceiling compresses nothing.
C5_FreshWithinCeilingPlusFailed ==
    [][/\ CycleEnds =>
            LET pr == proc["manual"]
                d2 == store'[pr.cdata]
                failed == {a \in Range(pr.plan) :
                              /\ a \in PageIdsOf(d2)
                              /\ PageById(d2, a).compressionLevel = COMPRESS_FRESH}
            IN  FreshCount(d2) <= settings.compressAfterPages + Cardinality(failed)
       /\ AtCeilingNothingCompressed]_vars

\* C5: a cycle has returned after compressing a page, with more FRESH pages
\* left than the ceiling
C5_Witness ==
    /\ proc["manual"].pc = "idle"
    /\ \E i \in DOMAIN store["chatA"].pages :
            store["chatA"].pages[i].compressedAt = nextId
    /\ FreshCount(store["chatA"]) > settings.compressAfterPages

\* C6 as the spec states it: a cycle that finds ceiling+k FRESH pages (k > 0)
\* has, when it returns, compressed exactly the k oldest of them, and every
\* other FRESH page is as it was.
C6_ExactlyOldestCompressed ==
    [][CycleEnds =>
        LET pr == proc["manual"]
            d == store[pr.cdata]
            d2 == store'[pr.cdata]
            F0 == Range(pr.fresh)
            k == Cardinality(F0) - settings.compressAfterPages
        IN  /\ k > 0
            /\ \A a \in Oldest(d, F0, k) : Summarised(d2, a)
            /\ \A b \in F0 \ Oldest(d, F0, k) :
                    /\ b \in PageIdsOf(d2)
                    /\ PageById(d2, b) = PageById(d, b)
                    /\ Pristine(PageById(d2, b))]_vars

\* C6, amended: a cycle that runs alone on its store and finds ceiling+k FRESH
\* pages (k > 0) calls compressPage for exactly the k oldest of them (equal
\* createdAt: store order); when it returns, every page it compressed is one
\* of those k, and every other page that was FRESH, a page whose call failed
\* included, has its content, compressionLevel and compressedAt unchanged.
C6_OldestAttempted ==
    [][CycleEnds =>
        LET pr == proc["manual"]
            d == store[pr.cdata]
            d2 == store'[pr.cdata]
            F0 == Range(pr.fresh)
            k == Cardinality(F0) - settings.compressAfterPages
            done == {a \in F0 : Summarised(d2, a)}
        IN  /\ k > 0
            /\ Range(pr.plan) = Oldest(d, F0, k)
            /\ Len(pr.plan) = k
            /\ done \subseteq Oldest(d, F0, k)
            /\ \A b \in F0 \ done :
                    /\ b \in PageIdsOf(d2)
                    /\ PageById(d2, b) = PageById(d, b)
                    /\ Pristine(PageById(d2, b))]_vars

\* C6: a cycle has returned after compressing two pages and leaving a FRESH
\* page under a ceiling of at least one
C6_Witness ==
    /\ proc["manual"].pc = "idle"
    /\ settings.compressAfterPages >= 1
    /\ Cardinality({i \in DOMAIN store["chatA"].pages :
                        store["chatA"].pages[i].compressedAt = nextId}) = 2
    /\ \E i \in DOMAIN store["chatA"].pages : Pristine(store["chatA"].pages[i])

\* C7: the pages and characters a turn returns, and the lists agentRetrieve
\* holds between its two rounds, number at most maxPages and at most 2.
C7_ResultWithinLimits ==
    /\ Len(lastRecalled.pages) <= settings.maxPages
    /\ Len(lastRecalled.characters) <= MAX_CHARACTERS
    /\ Len(proc["retr"].sel) <= settings.maxPages
    /\ Len(proc["retr"].chars) <= MAX_CHARACTERS

\* C7: an agent turn has returned maxPages pages of a store that holds more
\* (the same page twice: round 1 does not deduplicate, the keyword fallback
\* returns each page once)
C7_Witness ==
    /\ proc["retr"].pc = "idle"
    /\ Len(lastRecalled.pages) = settings.maxPages
    /\ Len(store["chatA"].pages) > settings.maxPages
    /\ \E i, j \in DOMAIN lastRecalled.pages :
            i # j /\ lastRecalled.pages[i] = lastRecalled.pages[j]

\* No keyword of page q equals, contains or is contained in a query token
NoOverlap(q, queryKeywords) ==
    \A kw \in Range(q.keywords), t \in queryKeywords :
        kw # t /\ ~Includes(t, kw) /\ ~Includes(kw, t)

\* C8: for every set of query tokens, a page of the store without keyword
\* overlap has score 0 and is not among the pages the keyword fallback returns.
C8_NoOverlapExcluded ==
    \A c \in Chats, queryKeywords \in Queries :
        \A i \in DOMAIN store[c].pages :
            NoOverlap(store[c].pages[i], queryKeywords) =>
                /\ score2(store[c].pages[i], queryKeywords) = 0
                /\ store[c].pages[i].id \notin
                    Range(keywordFallbackRetrieve(store[c], queryKeywords,
                                                  settings.maxPages).pages)

\* C9: when the pre-filter supplied a (non-empty) candidate set, the enum of
\* recall_story_page is the candidate set and the agent's selection holds
\* candidate pages only.
C9_SelectionWithinCandidates ==
    /\ proc["retr"].hasCand
    /\ proc["retr"].cand # {}
    /\ proc["retr"].pc \in {"round1", "round2"}
    =>
        /\ proc["retr"].enum = proc["retr"].cand
        /\ Range(proc["retr"].sel) \subseteq proc["retr"].cand

\* C10: a load of a version-1 store has applied migrateV1toV2, migrateV2toV3
\* and migrateV3toV4 in that order, a load of a version-2 store migrateV2toV3
\* and migrateV3toV4.
C10_StrictChain ==
    \A r \in hist :
        /\ r.from = 1 =>
            r.steps = <<"migrateV1toV2", "migrateV2toV3", "migrateV3toV4">>
        /\ r.from = 2 /\ ~r.storyBible =>
            r.steps = <<"migrateV2toV3", "migrateV3toV4">>

C12_ChainIdempotent ==
    \A c \in Chats :
        /\ store[c].version = DATA_VERSION => getMemoryDataOf(store[c]) = store[c]
        /\ getMemoryDataOf(getMemoryDataOf(store[c])) = getMemoryDataOf(store[c])

\* C12: getMemoryData has migrated a store with pages from an older version
C12_Witness ==
    \E r \in hist :
        /\ r.op = "getMemoryData"
        /\ r.from \in 1..(DATA_VERSION - 1)
        /\ r.steps # <<>>
        /\ Len(store[r.chat].pages) > 0

\* The fields of a store that extraction writes
Extracted(d) ==
    <<d.timeline, d.knownCharacterAttitudes, d.characters, d.items, d.pages,
      d.lastExtractedMessageId>>

\* Extractor p enters performExtraction in this step and awaits callLLM
ExtractionStarts(p) == proc[p].pc = "idle" /\ proc'[p].pc = "llm"

\* The extraction of p ends in this step because callLLM threw or the
\* response did not parse
ExtractionAborts(p) == proc[p].pc = "llm" /\ proc'[p].pc = "idle"

\* C13: neither the step that starts an extraction cycle nor the step in
\* which it aborts (callLLM threw, parseJsonResponse returned null) changes
\* timeline, knownCharacterAttitudes, characters, items, pages or
\* lastExtractedMessageId of any store.
C13_FailedExtractionWritesNothing ==
    [][\A p \in Extractors :
            ExtractionStarts(p) \/ ExtractionAborts(p) =>
                \A c \in Chats : Extracted(store'[c]) = Extracted(store[c])]_vars

\* C13: an extraction has aborted on a store that holds a page and a timeline
\* (no extraction has succeeded on it: lastExtractedMessageId is still -1)
C13_Witness ==
    /\ streak > 0
    /\ proc["ex1"].pc = "idle"
    /\ store[cur].pages # <<>>
    /\ store[cur].timeline # 0
    /\ store[cur].lastExtractedMessageId = -1
    /\ ~store[cur].extractionInProgress

\* A safeExtract call of p ends in this step
AttemptEnds(p) == proc[p].pc \in {"llm", "hide"} /\ proc'[p].pc = "idle"

\* performExtraction of p returns normally in this step
ExtractionSucceeds(p) ==
    \/ proc[p].pc = "idle" /\ proc'[p].pc = "hide"
    \/ proc[p].pc = "save" /\ proc'[p].pc = "hide"

\* C14: a safeExtract call shows the warning exactly when its failure brings
\* consecutiveFailures to the threshold, which is then reset to 0; it is then
\* the third failed call in a row (no successful extraction, no warning and
\* no chat change in between); a performExtraction that returns normally sets the counter
\* to 0.
C14_WarningAtThirdFailure ==
    [][\A p \in Extractors :
        /\ AttemptEnds(p) =>
            /\ toast' <=> /\ consecutiveFailures + 1 = FAILURE_THRESHOLD
                          /\ consecutiveFailures' # consecutiveFailures
            /\ toast' => consecutiveFailures' = 0 /\ streak + 1 >= FAILURE_THRESHOLD
            /\ consecutiveFailures' < FAILURE_THRESHOLD
        /\ ExtractionSucceeds(p) => consecutiveFailures' = 0]_vars

\* C14: the warning has been shown
C14_Witness ==
    toast /\ consecutiveFailures = 0 /\ proc["ex1"].pc = "idle"

\* C15: whenever the in-progress flag of a store is set, it is cleared later.
C15_FlagEventuallyCleared ==
    \A c \in Chats :
        store[c].extractionInProgress ~> ~store[c].extractionInProgress

\* C15: a failed extraction has ended and has left the flag of its store clear
C15_Witness ==
    /\ streak > 0
    /\ \A p \in Extractors \cup {"batch"} : proc[p].pc = "idle"
    /\ \A c \in Chats : ~store[c].extractionInProgress

\* C16: in every store no name is in both knownCharacterAttitudes and
\* characters, and the protagonist's name is in neither.
C16_NamesDisjoint ==
    \A c \in Chats :
        /\ NamesOf(store[c].knownCharacterAttitudes) \cap NamesOf(store[c].characters) = {}
        /\ userName \notin NamesOf(store[c].knownCharacterAttitudes)
        /\ userName \notin NamesOf(store[c].characters)

\* C17: the categories of every stored page are tags of the enum, whether
\* the page came from an extraction, a migration or an import.
C17_CategoriesWithinEnum ==
    \A c \in Chats : \A i \in DOMAIN store[c].pages :
        Range(store[c].pages[i].categories) \subseteq VALID_CATEGORIES

\* C18: the stored timeline changes only by a compaction that was triggered
\* (the line count it read exceeds maxTimelineEntries) and whose result has
\* at least one and at most as many non-empty lines as the timeline it
\* read; a result with more lines, a failed call and an untriggered
\* compaction leave the timeline as it is.
C18_TimelineGate ==
    [][\A c \in Chats :
        store'[c].timeline # store[c].timeline =>
            \E p \in Compressors :
                /\ proc[p].pc = "timeline" /\ proc'[p].pc # "timeline"
                /\ proc[p].cdata = c
                /\ proc[p].lines = store[c].timeline
                /\ proc[p].lines > settings.maxTimelineEntries
                /\ store'[c].timeline >= 1
                /\ store'[c].timeline <= proc[p].lines]_vars

\* C18: a cycle is past its timeline phase and the timeline still has more
\* lines than the ceiling: the compaction was triggered, its call has
\* returned, and the stored timeline has no more lines than before
C18_Witness ==
    /\ proc["manual"].pc = "compress"
    /\ proc["manual"].cdata = "chatA"
    /\ store["chatA"].timeline > settings.maxTimelineEntries
    /\ store["chatA"].timeline = MaxLines + 1

\* The compressPage call of the manual cycle returns in this step
CompressCallReturns ==
    /\ proc["manual"].pc = "compress"
    /\ proc'["manual"] # proc["manual"]

\* C19: when a compressPage call returns, its page is either SUMMARY with a
\* new content and compressedAt (or archived by the same cycle at once), or
\* FRESH and exactly as it was; and a cycle
\* that computes its toCompress list puts on it every FRESH page that is
\* among the oldest excess, a page whose earlier call failed included.
C19_FailedPageStaysFresh ==
    [][/\ CompressCallReturns =>
            LET pr == proc["manual"]
                q == PageById(store[pr.cdata], pr.page)
                q2 == PageById(store'[pr.cdata], pr.page)
            IN  /\ pr.page \in PageIdsOf(store[pr.cdata])
                /\ Pristine(q)
                /\ \/ pr.page \notin PageIdsOf(store'[pr.cdata])
                   \/ q2 = q
                   \/ /\ q2.compressionLevel = COMPRESS_SUMMARY
                      /\ q2.content = "sum"
                      /\ q2.compressedAt # 0
       /\ CyclePlans =>
            LET c == IF proc["manual"].pc = "idle" THEN cur ELSE proc["manual"].cdata
                d == store[c]
                F == {a \in PageIdsOf(d) : PageById(d, a).compressionLevel = COMPRESS_FRESH}
                k == Cardinality(F) - settings.compressAfterPages
            IN  k > 0 =>
                    /\ proc'["manual"].pc = "compress"
                    /\ Range(proc'["manual"].plan) = Oldest(d, F, k)
                    /\ proc'["manual"].page \in Oldest(d, F, 1)]_vars

\* C19: a cycle has its compressPage call in flight for a page that is as
\* extraction wrote it, while a page created later was compressed in this
\* run: the earlier call for the older page failed and the page is selected
\* again
C19_Witness ==
    /\ proc["manual"].pc = "compress"
    /\ LET d == store["chatA"]
           id == proc["manual"].page
       IN  /\ id \in PageIdsOf(d)
           /\ Pristine(PageById(d, id))
           /\ \E i \in DOMAIN d.pages :
                /\ d.pages[i].compressedAt = nextId
                /\ d.pages[i].createdAt > PageById(d, id).createdAt

\* The pages of d that have a cached embedding and are not archived
EmbeddedIds(d) ==
    {d.pages[i].id : i \in {j \in DOMAIN d.pages :
        /\ d.pages[j].compressionLevel <= COMPRESS_SUMMARY
        /\ d.pages[j].id \in d.embeddings}}

\* C20: when the embedding pre-filter has failed in a turn (its call threw,
\* it is not configured, or no page of the store has a cached embedding),
\* the turn goes on and the enum of recall_story_page the agent is given is
\* the full catalog: every page with compressionLevel <= SUMMARY.
C20_FailedPrefilterFullCatalog ==
    LET pr == proc["retr"]
    IN  /\ pr.pc \in {"round1", "round2"}
        /\ ~pr.hasCand \/ EmbeddedIds(store[pr.data]) = {}
        =>
            pr.enum = pageEnum(store[pr.data], FALSE, {})

\* C21 as the spec states it: whenever the agent's reasoning call was
\* unavailable or failed, in round 1 or in round 2, the agent has returned an
\* empty selection and the keyword fallback has run.
C21_FailedAgentEmptySelection ==
    turn.agent \in {"off", "failed1", "failed2"} =>
        ~turn.selected /\ turn.fallback

\* C21, amended: when the agent is not called or its round 1 call fails, the
\* agent returns an empty selection and the turn goes on to the keyword
\* fallback; when its round 2 call fails, the agent returns the selection of
\* round 1, and the keyword fallback runs exactly when that selection is
\* empty.  In no case does the turn end without a result.
C21_FailedAgentFallsThrough ==
    [][LET pr == proc["retr"]
       IN  proc'["retr"].pc = "idle" =>
            /\ turn'.agent \in {"off", "empty", "failed1"} =>
                    ~turn'.selected /\ turn'.fallback
            /\ turn'.agent = "failed2" /\ pr.pc # "idle" =>
                    /\ pr.pc = "round2"
                    /\ IF pr.sel = <<>> /\ pr.chars = <<>>
                       THEN ~turn'.selected /\ turn'.fallback
                       ELSE /\ turn'.selected /\ ~turn'.fallback
                            /\ lastRecalled' = [pages |-> pr.sel, characters |-> pr.chars]]_vars

\* C21: round 2 has failed after round 1 had selected a page; the turn has
\* ended with that selection and without the keyword fallback
C21_Witness ==
    /\ turn.agent = "failed2"
    /\ turn.selected
    /\ ~turn.fallback
    /\ lastRecalled.pages # <<>>
    /\ proc["retr"].pc = "idle"

\* The steps of a turn in the order of the tiers: the pre-filter call, then
\* round 1 and round 2 of the agent, then the end of the turn
TierOrder ==
    LET a == proc["retr"].pc
        b == proc'["retr"].pc
    IN  \/ a = b
        \/ a = "idle" /\ b \in {"prefilter", "round1"}
        \/ a = "prefilter" /\ b \in {"round1", "idle"}
        \/ a = "round1" /\ b \in {"round2", "idle"}
        \/ a = "round2" /\ b = "idle"

\* C22: a turn goes through its tiers in the order embedding pre-filter,
\* retrieval agent, keyword fallback; the keyword fallback runs in the step
\* that ends the turn, and it runs if and only if the agent (not called,
\* failed or returned) has selected no page and no character.
C22_TierOrderAndFallback ==
    [][/\ TierOrder
       /\ turn' # turn => proc'["retr"].pc = "idle"
       /\ turn'.agent # "none" => (turn'.fallback <=> ~turn'.selected)
       /\ proc'["retr"].pc \in {"round1", "round2"} => turn' = turn]_vars

\* C22: the agent has returned after round 1 without a selection and the
\* keyword fallback has supplied the pages of the turn
C22_Witness ==
    /\ turn.agent = "round1"
    /\ ~turn.selected
    /\ turn.fallback
    /\ lastRecalled.pages # <<>>

\* Flow p is inside a compression cycle on the store of chat c
InCycle(p, c) ==
    /\ proc[p].pc \in {"timeline", "compress", "reembed"}
    /\ proc[p].cdata = c

\* C23: on no store are two compression cycles in flight at the same time,
\* and on no store is a compression cycle in flight while another flow's
\* extraction awaits the result it will merge.
C23_CompressionNonReentrant ==
    \A c \in Chats :
        /\ Cardinality({p \in Compressors : InCycle(p, c)}) <= 1
        /\ \A p \in Compressors, q \in Extractors :
                ~(p # q /\ InCycle(p, c) /\ proc[q].pc = "llm" /\ proc[q].data = c)

\* C24: no two pages of a store have the same id.
C24_PageIdsUnique ==
    \A c \in Chats : \A i, j \in DOMAIN store[c].pages :
        store[c].pages[i].id = store[c].pages[j].id => i = j

\* The part of a store the retrieval tiers are said to read only
ReadOnlyPart(d) ==
    [timeline |-> d.timeline, characters |-> d.characters,
     knownCharacterAttitudes |-> d.knownCharacterAttitudes, items |-> d.items,
     pages |-> d.pages, embeddings |-> d.embeddings,
     lastExtractedMessageId |-> d.lastExtractedMessageId,
     extractionInProgress |-> d.extractionInProgress]

\* C25: no step of a retrieval turn (start, pre-filter, agent rounds, keyword
\* fallback, end of turn) changes timeline, characters,
\* knownCharacterAttitudes, items, pages or their order, embeddings or the
\* processing state of any store.
C25_RetrievalOnlyReads ==
    [][\A c \in Chats : ReadOnlyPart(store'[c]) = ReadOnlyPart(store[c])]_vars

\* A turn went through the pre-filter and both agent rounds, recalled pages
\* and logged them
C25_Witness ==
    /\ proc["retr"].pc = "idle"
    /\ turn.agent = "round2"
    /\ store["chatA"].embeddings # {}
    /\ lastRecalled.pages # <<>>
    /\ store["chatA"].messageRecalls[0] # {}

Letters(content) == \A i \in DOMAIN content : content[i] \in {"a", "b"}

Parsed == parse.result # Unparsed

\* C26: a text with a trailing comma (and blanks) before its closing brace
\* or bracket, bare, fenced or in prose, parses to the value it would have
\* without the comma; {"a":"b",} parses to the object with a = "b".
C26_TrailingCommaStripped ==
    Parsed /\ parse.trailing # <<>> /\ Letters(parse.content)
        => parse.result = Meant(parse.content, parse.shape)

C26_Witness ==
    /\ parse.text = <<"{", Quote, "a", Quote, ":", Quote, "b", Quote, ",", "}">>
    /\ parse.result = Obj(<<[k |-> <<"a">>, v |-> Str(<<"b">>)]>>)

\* The string holds a quote followed immediately by a structural character
QuoteBeforeStructural(content) ==
    \E i \in DOMAIN content :
        /\ content[i] = Quote
        /\ i < Len(content)
        /\ content[i + 1] \in {":", ",", "}", "]"}

\* Every quote of the string is followed, after blanks, by something else
\* than a structural character or a line end
QuotesBeforeOther(content) ==
    LET written == Append(content, Quote)
    IN  \A i \in DOMAIN content :
            content[i] = Quote =>
                written[peek(written, i + 1)] \notin {":", ",", "}", "]", "\n", "\r"}

\* The string holds a comma followed, after whitespace, by a closing brace
\* or bracket
CommaBeforeCloser(content) ==
    \E i \in DOMAIN content :
        /\ content[i] = ","
        /\ skipWs(content, i + 1) <= Len(content)
        /\ content[skipWs(content, i + 1)] \in {"}", "]"}

PhaseOrder ==
    /\ proc'["manual"].pc = "timeline" => proc["manual"].pc = "idle"
    /\ store'["chatA"].timeline # store["chatA"].timeline => proc["manual"].pc = "timeline"
    /\ (\E i \in DOMAIN store["chatA"].pages, j \in DOMAIN store'["chatA"].pages :
            /\ store["chatA"].pages[i].id = store'["chatA"].pages[j].id
            /\ store["chatA"].pages[i].compressionLevel
                    # store'["chatA"].pages[j].compressionLevel)
        => proc["manual"].pc = "compress"
    /\ hist' # hist => proc'["manual"].pc = "idle"

\* C28: every cycle runs timeline compaction, then page compression, then
\* archiving, and saveMemoryData() runs after each page mutation: after every
\* archived page, before the next page is archived.
C28_OrderedAndSavedAfterEachPage ==
    [][PhaseOrder]_vars /\ [](\A r \in hist : r.saved)

NoRepeat(s) == \A i, j \in DOMAIN s : s[i] = s[j] => i = j

\* C29: the pages and the characters a retrieval turn returns hold no page
\* and no character twice, whatever page_id or name the model repeats in the
\* tool calls of a round.
C29_SelectionDeduplicated ==
    NoRepeat(lastRecalled.pages) /\ NoRepeat(lastRecalled.characters)

Reported(list) ==
    SelectSeq(list, LAMBDA c : /\ c.name # NoName
                               /\ c.name # userName
                               /\ c.name \notin KnownNames)

\* C31: after a merge that returned, the NPC list of the store is the list
\* the result reported in newCharacters, an empty one included, without the
\* entries named as the protagonist or as a known character; no prior entry
\* is left.
C31_ReportedListReplaces ==
    parse.merged /\ ~parse.threw /\ parse.result.splitFormat
        => store["chatA"].characters = Reported(parse.result.newCharacters)

\* A result without the entries whose name is not a string
Cleaned(result) ==
    LET strings(list) == SelectSeq(list, LAMBDA c : c.name # NotAString)
    IN  [result EXCEPT !.knownCharacterAttitudes = strings(@),
                       !.newCharacters = strings(@),
                       !.characters = strings(@)]

\* C32: a defect of the result (a tag outside the enum, an unrecognized
\* known-character name, an entry with a missing or malformed field) drops
\* that entry only: the merge returns, and the store is what the merge of the
\* result without its malformed entries makes of the prior store.
C32_DefectDropsOneUnit ==
    parse.merged =>
        /\ ~parse.threw
        /\ store["chatA"] = applyExtractionResult(parse.prior, Cleaned(parse.result), 1, 1)

\* Twice the score the claim gives page q for the query tokens
ClaimedScore2(q, queryKeywords) ==
    4 * Cardinality({i \in DOMAIN q.keywords : q.keywords[i] \in queryKeywords})
    + 2 * Cardinality({<<t, i>> \in queryKeywords \X DOMAIN q.keywords :
                        /\ t # q.keywords[i]
                        /\ (Includes(t, q.keywords[i]) \/ Includes(q.keywords[i], t))})
    + (IF q.significance = "high" THEN 2 ELSE 0)
    + (IF q.compressionLevel = COMPRESS_FRESH THEN 1 ELSE 0)

\* C33: for every set of query tokens the keyword fallback scores a page
\* 2 per keyword that is a token, 1 per pair of distinct token and keyword of
\* which one contains the other, 1 if high, 0.5 if FRESH; it returns pages of
\* level FRESH or SUMMARY and positive score only, each once, as many as
\* maxPages allows, highest score first, and no page left out scores higher
\* than a page returned.
C33_FallbackRanksByScore ==
    \A queryKeywords \in Queries :
        LET d == store["chatA"]
            ids == keywordFallbackRetrieve(d, queryKeywords, settings.maxPages).pages
            eligible == {i \in DOMAIN d.pages :
                            /\ d.pages[i].compressionLevel <= COMPRESS_SUMMARY
                            /\ ClaimedScore2(d.pages[i], queryKeywords) > 0}
            scoreOf(id) == ClaimedScore2(PageById(d, id), queryKeywords)
        IN  /\ \A i \in DOMAIN d.pages :
                    score2(d.pages[i], queryKeywords)
                        = ClaimedScore2(d.pages[i], queryKeywords)
            /\ Range(ids) \subseteq {d.pages[i].id : i \in eligible}
            /\ NoRepeat(ids)
            /\ Len(ids) = Min(settings.maxPages, Cardinality(eligible))
            /\ \A i, j \in DOMAIN ids : i < j => scoreOf(ids[i]) >= scoreOf(ids[j])
            /\ \A i \in eligible : d.pages[i].id \notin Range(ids) =>
                    \A j \in DOMAIN ids : scoreOf(d.pages[i].id) <= scoreOf(ids[j])

\* A turn ended in the keyword fallback, which returned maxPages pages of a
\* store that holds more, the better of two pages first
C33_Witness ==
    /\ proc["retr"].pc = "idle"
    /\ turn.fallback
    /\ settings.maxPages = 2
    /\ Len(store["chatA"].pages) = 3
    /\ lastRecalled.pages = <<3, 2>>

\* C34: after the load of a store of version 1, 2 or 3, every page of the
\* installed store has a categories array and the characters of the old flat
\* list are split: no known name is left in the NPC list.
C34_MigrationBackFills ==
    \A r \in hist :
        r.from \in 1..(DATA_VERSION - 1) =>
            LET d == store[r.chat]
            IN  /\ d.version = DATA_VERSION
                /\ \A i \in DOMAIN d.pages : d.pages[i].categoriesDefined
                /\ \A i \in DOMAIN d.characters : d.characters[i].name \notin KnownNames

RECURSIVE Emitted(_)
Emitted(trace) ==
    IF trace = <<>> THEN <<>> ELSE Head(trace).out \o Emitted(Tail(trace))

\* What follows position i of raw, without the leading characters of `skip`
RECURSIVE Ahead(_, _, _)
Ahead(raw, i, skip) ==
    IF i >= Len(raw) THEN <<>>
    ELSE IF raw[i + 1] \in skip THEN Ahead(raw, i + 1, skip)
    ELSE SubSeq(raw, i + 1, Len(raw))

\* At every unescaped quote the scan meets inside a string, the quote ends
\* the string (and is emitted as it is) exactly when what follows it, after
\* the characters of `skip`, is nothing or starts with a character of `ends`;
\* otherwise it is emitted escaped and the scan stays inside the string
QuoteRule(raw, skip, ends) ==
    LET trace == scanTrace(raw, 1, FALSE, FALSE)
    IN  /\ Emitted(trace) = scan(raw, 1, FALSE, FALSE, <<>>)
        /\ \A i \in DOMAIN raw :
                raw[i] = Quote /\ trace[i].inString /\ ~trace[i].escaped =>
                    LET rest == Ahead(raw, i, skip)
                    IN  IF rest = <<>> \/ Head(rest) \in ends
                        THEN trace[i].out = <<Quote>> /\ ~trace[i].after
                        ELSE trace[i].out = <<Backslash, Quote>> /\ trace[i].after

\* C35 as stated: the quote is the terminator exactly when the next
\* non-whitespace character is : , } ] or the end of the input.
C35_TerminatorBeforeStructural ==
    QuoteRule(parse.text, Whitespace, {":", ",", "}", "]"})

\* C35: the quote is the terminator exactly when the next character after
\* spaces and tabs is : , } ], a line end, or the end of the input; in every
\* other case it is emitted escaped and the scan stays inside the string.
C35_TerminatorBeforeStructuralOrLineEnd ==
    QuoteRule(parse.text, {" ", "\t"}, {":", ",", "}", "]", "\n", "\r"})

\* A string that holds a quote, a line end and a letter: the quote was taken
\* as the end of the string and the text did not parse
C35_Witness ==
    /\ parse.content = <<Quote, "\n", "a">>
    /\ parse.wrap = "bare"
    /\ parse.result = Null

\* The batch list: a world-book batch only in first place, then the chat's
\* messages 0..n-1 cut into consecutive chunks of CHUNK_SIZE, oldest first
InOrder(todo, n) ==
    LET chunks == SelectSeq(todo, LAMBDA b : b.type = "chat")
    IN  /\ \A k \in DOMAIN todo : todo[k].type = "lore" => k = 1
        /\ Len(chunks) = (n + CHUNK_SIZE - 1) \div CHUNK_SIZE
        /\ \A k \in DOMAIN chunks :
                chunks[k].sourceIds = {i \in 0..(n - 1) : i \div CHUNK_SIZE = k - 1}

Unflagged(d) == [d EXCEPT !.extractionInProgress = FALSE]

\* One step of the initialization's loop over its batches
BatchStep == proc["batch"].pc = "chunk" /\ proc'["batch"] # proc["batch"]

\* C36: the batch list holds the world-book batch first and the chat chunks
\* oldest first; every step of the loop takes the first batch left, changes
\* no store but the one being initialized, and either leaves that store as it
\* was (the batch failed) or merges a result into it as an extraction does.
C36_BatchesInOrder ==
    [][LET pr == proc["batch"]
           c  == pr.data
       IN  /\ pr.pc = "lore" /\ proc'["batch"].pc # "lore" =>
                /\ proc'["batch"].pc = "chunk"
                /\ InOrder(proc'["batch"].todo, pr.n)
           /\ BatchStep =>
                /\ IF Len(pr.todo) > 1
                   THEN proc'["batch"].pc = "chunk" /\ proc'["batch"].todo = Tail(pr.todo)
                   ELSE proc'["batch"].pc # "chunk"
                /\ \A o \in Chats \ {c} : store'[o] = store[o]
                /\ \/ Unflagged(store'[c]) = Unflagged(store[c])
                   \/ \E result \in Results :
                        Unflagged(store'[c]) =
                            Unflagged(tagSourceMessages(
                                applyExtractionResult(store[c], result, nextId, nextId),
                                Head(pr.todo)))]_vars

\* The world-book batch made a page, the first chat chunk failed and left it,
\* and the second chat chunk is the one batch left
C36_Witness ==
    /\ proc["batch"].pc = "chunk"
    /\ proc["batch"].n = MaxLongChat
    /\ Len(proc["batch"].todo) = 1
    /\ proc["batch"].todo[1].type = "chat"
    /\ store[proc["batch"].data].pages # <<>>
    /\ store[proc["batch"].data].lastExtractedMessageId = -1

\* C40: a step of the loop gives the pages it creates the message indices of
\* its chat chunk (none for the world-book batch) and leaves the
\* sourceMessages of the pages that were there before as they were.
C40_SourceMessagesOfOwnChunk ==
    [][BatchStep =>
        LET c      == proc["batch"].data
            batch  == Head(proc["batch"].todo)
            before == store[c].pages
            after  == store'[c].pages
        IN  \A i \in DOMAIN after :
                IF \E j \in DOMAIN before : before[j].id = after[i].id
                THEN \A j \in DOMAIN before :
                        before[j].id = after[i].id =>
                            after[i].sourceMessages = before[j].sourceMessages
                ELSE after[i].sourceMessages =
                        (IF batch.type = "chat" THEN batch.sourceIds ELSE {})]_vars

\* C37: when an extraction moves lastExtractedMessageId forward, it moves it
\* to a message that was in the prompt of that extraction.
C37_AdvancesOverPromptOnly ==
    [][\A p \in Extractors :
        LET c == proc[p].data
        IN  /\ proc[p].pc = "llm"
            /\ proc'[p].pc # "llm"
            /\ store'[c].lastExtractedMessageId # store[c].lastExtractedMessageId
            => store'[c].lastExtractedMessageId < proc[p].n]_vars

\* C38: every page id in a store's recall log is the id of a page of that
\* store.
C38_RecallLogRefersToPages ==
    \A c \in Chats : RecallRefs(store[c]) \subseteq PageIdsOf(store[c])

\* C39: a store's extractionInProgress flag is set only while an extraction
\* or a batch initialization on that store is in flight.
C39_FlagOnlyWhileInFlight ==
    \A c \in Chats :
        store[c].extractionInProgress =>
            \E p \in Extractors \cup {"batch"} : proc[p].pc # "idle" /\ proc[p].data = c

====
